---------------------------- MODULE Spec2Model ----------------------------
(***************************************************************************)
(* Model of the SHS01 presence-sensor firmware (SHS01/main/shs01.c):       *)
(* the LD2410 frame reassembler, the presence state machine with the       *)
(* movement cooldown, the configuration write handler and the NVS save     *)
(* worker.  Every task-loop iteration and every callback is one action.    *)
(***************************************************************************)
EXTENDS Integers, Sequences, FiniteSets, TLC

(* ------------------------------------------------------------------ *)
(* Program constants (shs01.h, shs01.c)                                *)
(* ------------------------------------------------------------------ *)
SHS_UART_BUF_SIZE == 512
SHS_UART_ACC_BUF_SIZE == 1024
\* SHS_LD2410_HDR_RX0..3, SHS_LD2410_TAIL_RX0..3 (0xF4 0xF3 0xF2 0xF1, 0xF8 0xF7 0xF6 0xF5)
SHS_LD2410_HDR_RX == <<244, 243, 242, 241>>
SHS_LD2410_TAIL_RX == <<248, 247, 246, 245>>
\* SHS_LD2410_HDR_TX0..3, SHS_LD2410_TAIL_TX0..3 (0xFD 0xFC 0xFB 0xFA, 0x04 0x03 0x02 0x01)
SHS_LD2410_HDR_TX == <<253, 252, 251, 250>>
SHS_LD2410_TAIL_TX == <<4, 3, 2, 1>>
SHS_LD2410_MIN_FRAME_BYTES == 9
SHS_NVS_DEBOUNCE_MS == 500
SHS_COOLDOWN_MAX_SEC == 300
SHS_SAVE_Q_LEN == 8
SHS_EP_LIGHT == 1
SHS_EP_OCC == 2
SHS_CL_CFG_ID == 64973
SHS_ATTR_MOVEMENT_COOLDOWN == 1
SHS_ATTR_OCC_CLEAR_COOLDOWN == 2
SHS_ATTR_MOVING_SENS_0_10 == 3
SHS_ATTR_STATIC_SENS_0_10 == 4
SHS_ATTR_MOVING_MAX_GATE == 5
SHS_ATTR_STATIC_MAX_GATE == 6
SHS_LD2410_CMD_BEGIN_CONFIG == 255
SHS_LD2410_CMD_SET_PARAMS == 96
SHS_LD2410_CMD_SET_SENSITIVITY == 100
SHS_LD2410_CMD_END_CONFIG == 254
SHS_LD2410_PW_MAX_MOVE_GATE == 0
SHS_LD2410_PW_MAX_STATIC_GATE == 1
SHS_LD2410_PW_NO_ONE_DURATION == 2
SHS_LD2410_GATE_ALL == 65535
\* values of the Zigbee SDK used by the write handler
ESP_ZB_ZCL_CLUSTER_ID_ON_OFF == 6
ESP_ZB_ZCL_ATTR_ON_OFF_ON_OFF_ID == 0
ESP_ZB_ZCL_ATTR_TYPE_BOOL == 16
ESP_ZB_ZCL_ATTR_TYPE_U16 == 33

(* ------------------------------------------------------------------ *)
(* Bounds of the model                                                 *)
(* ------------------------------------------------------------------ *)
\* milliseconds the clock advances in one Advance step
StepMs == 250
\* number of Advance steps explored
MaxSteps == 6
\* largest movement cooldown (seconds) loaded from NVS or written
MaxCooldown == 1
\* number of attribute writes explored
MaxWrites == 2
\* state bytes carried by the modelled frames: 0..MaxStateByte
MaxStateByte == 3
\* longest arbitrary header-free prefix sent before a frame
MaxGarbage == 2
\* longest read that is shorter than a full read buffer
MaxChunk == 20
\* cooldown writes that queue an immediate save ahead of the debounced ones
MaxFill == 8
\* clock steps during which debounced fields are written
MaxSaveSteps == 2
\* stack signals delivered
MaxSignals == 1
\* clock steps and attribute writes followed in the whole-program runs
MaxSysSteps == 1
MaxSysWrites == 1
\* statement-level runs: clock steps and cooldown writes
MaxIlSteps == 2
MaxIlWrites == 2
\* statement-level runs that follow a held moving signal: clock steps and
\* cooldown writes
MaxHeldSteps == 1
MaxHeldWrites == 2
\* runs that follow an armed timer to its end: clock steps and cooldown
\* writes before the timer is left to run out
MaxArmSteps == 1
MaxArmWrites == 2
\* attribute writes followed in the configuration runs
MaxCfgWrites == 1
\* cooldown writes followed in the publication runs
MaxPubWrites == 1
\* attribute writes followed in the runs of the immediate saves
MaxImmWrites == 3
\* clock steps and cooldown writes followed in the runs of the timer's expiry
MaxExpSteps == 5
MaxExpWrites == 1
\* frames in a stream fed to the scan loop
MaxScanFrames == 2

(* ------------------------------------------------------------------ *)
(* uint32_t arithmetic.  A uint32_t is the pair <<high 16 bits, low 16  *)
(* bits>>, so that 2^32 wrap-around is exact.                           *)
(* ------------------------------------------------------------------ *)
W16 == 256 * 256

U32Zero == <<0, 0>>

\* the uint32_t of a natural number below 2^31
U32Of(n) == <<(n \div W16) % W16, n % W16>>

\* a + n (mod 2^32), n a natural number below 2^31
U32Add(a, n) ==
    LET lo == a[2] + (n % W16)
        hi == a[1] + (n \div W16) + (lo \div W16)
    IN  <<hi % W16, lo % W16>>

\* a - b (mod 2^32)
U32Sub(a, b) ==
    LET lo == a[2] - b[2]
        borrow == IF lo < 0 THEN 1 ELSE 0
    IN  <<(a[1] - b[1] - borrow) % W16, lo % W16>>

\* a >= n for a natural number n below 2^31
U32AtLeast(a, n) ==
    \/ a[1] > (n \div W16)
    \/ a[1] = (n \div W16) /\ a[2] >= (n % W16)

\* (int32_t)(now - deadline) >= 0
shs_time_reached(now_ms, deadline) == U32Sub(now_ms, deadline)[1] < (W16 \div 2)

(* ------------------------------------------------------------------ *)
(* State                                                               *)
(* ------------------------------------------------------------------ *)
VARIABLES
    \* configuration (shs01.c:44-56)
    shs_movement_cooldown_sec,
    shs_occupancy_clear_sec,
    shs_moving_sens_0_100,
    shs_static_sens_0_100,
    shs_moving_max_gate,
    shs_static_max_gate,
    shs_sens_mv_0_10,
    shs_sens_st_0_10,
    \* published states (shs01.c:59-61)
    shs_moving_state,
    shs_static_state,
    shs_occupancy_state,
    \* movement cooldown (shs01.c:64-66)
    shs_mv_cooldown_active,
    shs_mv_cooldown_deadline_ms,
    shs_last_moving_sample,
    \* Zigbee stack ready flag (shs01.c:69)
    shs_zb_ready,
    \* accumulator of shs_ld2410_task (shs01.c:453-454): acc holds the live
    \* window acc[start .. start+acc_len-1]; cells outside it are never read
    acc,
    start,
    acc_len,
    \* bytes the UART will still deliver to uart_read_bytes
    rx_stream,
    \* esp_log_timestamp() / xTaskGetTickCount(), in milliseconds (uint32_t)
    now,
    \* frames written by the most recent command sequence on the UART
    uart_tx,
    \* light_driver power state
    light_power,
    \* attribute values last handed to esp_zb_zcl_set_attribute_val
    zb_attr,
    \* save queue and the locals of shs_save_worker (shs01.c:85, 757-760)
    shs_save_q,
    pend,
    last_upd,
    save_val,
    worker_pc,
    \* NVS contents by key, and whether nvs_open currently succeeds
    nvs,
    \* history: every state byte handed to shs_process_sensor_state
    events,
    \* history: contexts from which esp_zb_lock_acquire has been called
    zb_lock_log,
    \* history: the task that took the last step
    last_task,
    \* history: bookkeeping used to state the properties
    hist,
    \* where the attribute handler and the serial task stand when they are
    \* followed statement by statement, with the locals they hold there
    ctx

cfgVars == <<shs_movement_cooldown_sec, shs_occupancy_clear_sec,
             shs_moving_sens_0_100, shs_static_sens_0_100,
             shs_moving_max_gate, shs_static_max_gate,
             shs_sens_mv_0_10, shs_sens_st_0_10>>

presVars == <<shs_moving_state, shs_static_state, shs_occupancy_state,
              shs_mv_cooldown_active, shs_mv_cooldown_deadline_ms,
              shs_last_moving_sample>>

decVars == <<acc, start, acc_len>>

saveVars == <<shs_save_q, pend, last_upd, save_val, worker_pc, nvs>>

vars == <<cfgVars, presVars, decVars, saveVars, shs_zb_ready, rx_stream, now,
          uart_tx, light_power, zb_attr, events, zb_lock_log, last_task, hist, ctx>>

(* ------------------------------------------------------------------ *)
(* Presence state machine (shs01.c:389-448).  The operators work on a   *)
(* record of the published states and the cooldown state; pubs lists    *)
(* the attribute setter calls made, in order.                           *)
(* ------------------------------------------------------------------ *)
Pres == [moving   |-> shs_moving_state,
         static   |-> shs_static_state,
         occ      |-> shs_occupancy_state,
         active   |-> shs_mv_cooldown_active,
         deadline |-> shs_mv_cooldown_deadline_ms,
         last     |-> shs_last_moving_sample,
         pubs     |-> <<>>]

Publish(p, attr, value) == [p EXCEPT !.pubs = Append(@, <<attr, value>>)]

\* (uint32_t)shs_movement_cooldown_sec * 1000U
CooldownMs(cd) == cd * 1000

\* variant: at the deadline the timer ends whatever the last sample was
shs_mv_cooldown_tick_IgnoresSample(p, cd, now_ms) ==
    IF cd = 0 \/ ~p.active THEN p
    ELSE IF shs_time_reached(now_ms, p.deadline)
         THEN LET q == IF p.moving
                       THEN Publish([p EXCEPT !.moving = FALSE], "moving", FALSE)
                       ELSE p
              IN  [q EXCEPT !.active = FALSE]
         ELSE p

shs_mv_cooldown_tick(p, cd, now_ms) ==
    IF cd = 0 \/ ~p.active THEN p
    ELSE IF shs_time_reached(now_ms, p.deadline)
         THEN IF ~p.last
              THEN LET q == IF p.moving
                            THEN Publish([p EXCEPT !.moving = FALSE], "moving", FALSE)
                            ELSE p
                   IN  [q EXCEPT !.active = FALSE]
              ELSE [p EXCEPT !.deadline = U32Add(now_ms, CooldownMs(cd))]
         ELSE p

\* state_byte & 0x01, state_byte & 0x02, state_byte & 0x03
RawMoving(state_byte) == (state_byte % 2) = 1
RawStatic(state_byte) == ((state_byte \div 2) % 2) = 1
RawPresence(state_byte) == (state_byte % 4) # 0

\* a moving branch that, with the cooldown disabled, follows only rising samples
ProcessMoving_RisingOnly(p, cd, now_ms, moving) ==
    LET p0 == [p EXCEPT !.last = moving]
    IN  IF cd = 0
        THEN IF moving /\ ~p0.moving
             THEN Publish([p0 EXCEPT !.moving = TRUE], "moving", TRUE)
             ELSE p0
        ELSE IF ~p0.active
             THEN IF moving /\ ~p0.moving
                  THEN [Publish([p0 EXCEPT !.moving = TRUE], "moving", TRUE)
                          EXCEPT !.active = TRUE,
                                 !.deadline = U32Add(now_ms, CooldownMs(cd))]
                  ELSE p0
             ELSE shs_mv_cooldown_tick(p0, cd, now_ms)

\* the moving branch of shs_process_sensor_state (shs01.c:414-435)
ProcessMoving(p, cd, now_ms, moving) ==
    LET p0 == [p EXCEPT !.last = moving]
    IN  IF cd = 0
        THEN IF moving # p0.moving
             THEN Publish([p0 EXCEPT !.moving = moving], "moving", moving)
             ELSE p0
        ELSE IF ~p0.active
             THEN IF moving /\ ~p0.moving
                  THEN [Publish([p0 EXCEPT !.moving = TRUE], "moving", TRUE)
                          EXCEPT !.active = TRUE,
                                 !.deadline = U32Add(now_ms, CooldownMs(cd))]
                  ELSE p0
             ELSE shs_mv_cooldown_tick(p0, cd, now_ms)

\* variant: the static state is published on every report
ProcessStatic_AlwaysPublishes(p, stat) ==
    Publish([p EXCEPT !.static = stat], "static", stat)

\* the static branch (shs01.c:437-441)
ProcessStatic(p, stat) ==
    IF stat # p.static
    THEN Publish([p EXCEPT !.static = stat], "static", stat)
    ELSE p

\* the occupancy branch (shs01.c:443-447)
ProcessOccupancy(p, presence) ==
    IF presence # p.occ
    THEN Publish([p EXCEPT !.occ = presence], "occupancy", presence)
    ELSE p

shs_process_sensor_state(p, cd, now_ms, state_byte) ==
    ProcessOccupancy(
        ProcessStatic(
            ProcessMoving(p, cd, now_ms, RawMoving(state_byte)),
            RawStatic(state_byte)),
        RawPresence(state_byte))

\* shs_process_sensor_state applied to each decoded state byte in order
RECURSIVE ProcessAll(_, _, _, _)
ProcessAll(p, cd, now_ms, bytes) ==
    IF bytes = <<>> THEN p
    ELSE ProcessAll(shs_process_sensor_state(p, cd, now_ms, Head(bytes)),
                    cd, now_ms, Tail(bytes))

(* ------------------------------------------------------------------ *)
(* Frame reassembler of shs_ld2410_task (shs01.c:456-517).  w is the    *)
(* live window of the accumulator: w[k+1] is acc[start + k].            *)
(* ------------------------------------------------------------------ *)
Min(a, b) == IF a < b THEN a ELSE b
Max(a, b) == IF a > b THEN a ELSE b

\* the four bytes of w from offset h equal pat
MatchAt(w, h, pat) ==
    /\ w[h + 1] = pat[1]
    /\ w[h + 2] = pat[2]
    /\ w[h + 3] = pat[3]
    /\ w[h + 4] = pat[4]

\* shs01.c:475-483: the value of h when the header search loop ends
FindHeader(w, i) ==
    IF i + 4 <= Len(w) /\ MatchAt(w, i, SHS_LD2410_HDR_RX) THEN i
    ELSE LET hits == {h \in i .. (Len(w) - 4) : MatchAt(w, h, SHS_LD2410_HDR_RX)}
         IN  IF hits # {}
             THEN CHOOSE h \in hits : \A g \in hits : h <= g
             ELSE Max(i, Len(w) - 3)

\* shs01.c:489: the little-endian length field
LeLen(w, h) == w[h + 5] + 256 * w[h + 6]

\* variant: the trailer is left out of the total
FrameTotal_NoTrailer(le_len) == 4 + 2 + le_len

\* shs01.c:490: total = 4 + 2 + le_len + 4
FrameTotal(le_len) == 4 + 2 + le_len + 4

\* shs01.c:488-496: the frame at h is complete and ends in the trailer
Confirmed(w, h) ==
    /\ Len(w) - h >= 10
    /\ h + FrameTotal(LeLen(w, h)) <= Len(w)
    /\ MatchAt(w, h + FrameTotal(LeLen(w, h)) - 4, SHS_LD2410_TAIL_RX)

\* variant: the declared length is dropped whether the frame was confirmed or not
DropLen_Declared(w, h) == h + FrameTotal(LeLen(w, h))

\* variant: an unconfirmed frame loses its header only
DropLen_HeaderOnly(w, h) ==
    IF Confirmed(w, h)
    THEN h + FrameTotal(LeLen(w, h))
    ELSE h + 4

\* variant: an unconfirmed frame is dropped up to its state byte
DropLen_UpToState(w, h) ==
    IF Confirmed(w, h)
    THEN h + FrameTotal(LeLen(w, h))
    ELSE h + 8

\* shs01.c:499, 511: bytes dropped for the frame at h
DropLen(w, h) ==
    IF Confirmed(w, h)
    THEN h + FrameTotal(LeLen(w, h))
    ELSE h + SHS_LD2410_MIN_FRAME_BYTES

\* variant: everything read is copied, whether it fits or not
AppendRead_NoTruncate(d, rx) ==
    [d EXCEPT !.start = IF d.start + Len(d.w) + Len(rx) > SHS_UART_ACC_BUF_SIZE
                        THEN 0 ELSE d.start,
              !.w = d.w \o rx]

\* shs01.c:458-471: the read bytes are appended, after moving the window to
\* index 0 when they would not fit; what still does not fit is not copied
AppendRead(d, rx) ==
    LET len    == Len(rx)
        st     == IF d.start + Len(d.w) + len > SHS_UART_ACC_BUF_SIZE
                  THEN 0 ELSE d.start
        free   == SHS_UART_ACC_BUF_SIZE - (st + Len(d.w))
        copied == IF st + Len(d.w) + len > SHS_UART_ACC_BUF_SIZE
                  THEN free ELSE len
    IN  [d EXCEPT !.start = st,
                  !.w = d.w \o SubSeq(rx, 1, copied),
                  !.lost = @ + (len - copied)]

\* shs01.c:473-516: the scan loop; evs collects the state bytes handed to
\* shs_process_sensor_state, dropped counts the bytes removed
RECURSIVE ScanLoop(_, _)
ScanLoop(d, i) ==
    IF Len(d.w) - i < SHS_LD2410_MIN_FRAME_BYTES THEN d
    ELSE LET h == FindHeader(d.w, i)
         IN  IF h + SHS_LD2410_MIN_FRAME_BYTES > Len(d.w) THEN d
             ELSE LET drop == DropLen(d.w, h)
                  IN  ScanLoop([d EXCEPT
                                  !.evs = Append(@, d.w[h + 8 + 1]),
                                  !.start = @ + drop,
                                  !.w = SubSeq(d.w, drop + 1, Len(d.w)),
                                  !.dropped = @ + drop], 0)

\* one read of len > 0 bytes followed by the scan
Decode(w, st, rx) ==
    ScanLoop(AppendRead([w |-> w, start |-> st, evs |-> <<>>,
                         lost |-> 0, dropped |-> 0], rx), 0)

(* ------------------------------------------------------------------ *)
(* Receive frames of the LD2410 (the byte layout the decoder expects)  *)
(* ------------------------------------------------------------------ *)
Le16(n) == <<n % 256, (n \div 256) % 256>>

RxFrame(payload) ==
    SHS_LD2410_HDR_RX \o Le16(Len(payload)) \o payload \o SHS_LD2410_TAIL_RX

\* a basic target report: data type, head, the state byte, further data
RxPayload(state_byte, rest) == <<2, 170, state_byte>> \o rest

(* ------------------------------------------------------------------ *)
(* Command encoder (shs01.c:165-250)                                   *)
(* ------------------------------------------------------------------ *)
shs_ld2410_write_cmd(payload) ==
    SHS_LD2410_HDR_TX \o Le16(Len(payload)) \o payload \o SHS_LD2410_TAIL_TX

shs_clamp_u16(v, lo, hi) == IF v < lo THEN lo ELSE IF v > hi THEN hi ELSE v

shs_clamp_u8(v, lo, hi) == IF v < lo THEN lo ELSE IF v > hi THEN hi ELSE v

BeginCfg == Le16(SHS_LD2410_CMD_BEGIN_CONFIG) \o <<1, 0>>

EndCfg == Le16(SHS_LD2410_CMD_END_CONFIG)

\* variant: the no-one duration is sent as one byte
SetParamsPayload_OneByteDuration(mv_gate, st_gate, no_one) ==
    Le16(SHS_LD2410_CMD_SET_PARAMS)
    \o Le16(SHS_LD2410_PW_MAX_MOVE_GATE) \o <<mv_gate % 256, 0, 0, 0>>
    \o Le16(SHS_LD2410_PW_MAX_STATIC_GATE) \o <<st_gate % 256, 0, 0, 0>>
    \o Le16(SHS_LD2410_PW_NO_ONE_DURATION) \o <<no_one % 256, 0, 0, 0>>

\* shs01.c:196-211: the set-parameters payload
SetParamsPayload(mv_gate, st_gate, no_one) ==
    Le16(SHS_LD2410_CMD_SET_PARAMS)
    \o Le16(SHS_LD2410_PW_MAX_MOVE_GATE) \o <<mv_gate % 256, 0, 0, 0>>
    \o Le16(SHS_LD2410_PW_MAX_STATIC_GATE) \o <<st_gate % 256, 0, 0, 0>>
    \o Le16(SHS_LD2410_PW_NO_ONE_DURATION) \o Le16(no_one) \o <<0, 0>>

\* shs01.c:232-236: the set-sensitivity payload
SetSensPayload(mv, st) ==
    Le16(SHS_LD2410_CMD_SET_SENSITIVITY) \o Le16(SHS_LD2410_GATE_ALL)
    \o <<mv, 0>> \o <<st, 0>>

\* shs_ld2410_apply_params_all leaving the configuration mode open
shs_ld2410_apply_params_all_NoEnd(c) ==
    << shs_ld2410_write_cmd(BeginCfg),
       shs_ld2410_write_cmd(SetParamsPayload(shs_clamp_u16(c.mv_gate, 0, 8),
                                             shs_clamp_u16(c.st_gate, 2, 8),
                                             c.occ_clear)) >>

\* the frames written by shs_ld2410_apply_params_all
shs_ld2410_apply_params_all(c) ==
    << shs_ld2410_write_cmd(BeginCfg),
       shs_ld2410_write_cmd(SetParamsPayload(shs_clamp_u16(c.mv_gate, 0, 8),
                                             shs_clamp_u16(c.st_gate, 2, 8),
                                             c.occ_clear)),
       shs_ld2410_write_cmd(EndCfg) >>

\* the frames written by shs_ld2410_apply_global_sensitivity
shs_ld2410_apply_global_sensitivity(c) ==
    << shs_ld2410_write_cmd(BeginCfg),
       shs_ld2410_write_cmd(SetSensPayload(shs_clamp_u8(c.mv_sens, 0, 100),
                                           shs_clamp_u8(c.st_sens, 0, 100))),
       shs_ld2410_write_cmd(EndCfg) >>

(* ------------------------------------------------------------------ *)
(* Save queue (shs01.c:72-85, 111-116)                                 *)
(* ------------------------------------------------------------------ *)
DebFields == {"mv_sens", "st_sens", "mv_gate", "st_gate"}

\* the debounced NVS key a save event stands for
DebKey(type) ==
    CASE type = "SHS_SAVE_DEBOUNCE_SENS_MOVE"   -> "mv_sens"
      [] type = "SHS_SAVE_DEBOUNCE_SENS_STATIC" -> "st_sens"
      [] type = "SHS_SAVE_DEBOUNCE_GATE_MOVE"   -> "mv_gate"
      [] type = "SHS_SAVE_DEBOUNCE_GATE_STATIC" -> "st_gate"

\* variant: a full queue gives up its oldest message for the new one
shs_save_enqueue_Overwriting(q, t, v) ==
    IF Len(q) < SHS_SAVE_Q_LEN
    THEN Append(q, [type |-> t, u16 |-> v])
    ELSE Append(Tail(q), [type |-> t, u16 |-> v])

\* xQueueSend(shs_save_q, &m, 0): the message is dropped when the queue is full
shs_save_enqueue(q, t, v) ==
    IF Len(q) < SHS_SAVE_Q_LEN
    THEN Append(q, [type |-> t, u16 |-> v])
    ELSE q

(* ------------------------------------------------------------------ *)
(* Configuration write handler (shs01.c:294-378).  The operators work   *)
(* on a record of everything the handler can change.                    *)
(* ------------------------------------------------------------------ *)
Cfg == [cd        |-> shs_movement_cooldown_sec,
        occ_clear |-> shs_occupancy_clear_sec,
        mv_sens   |-> shs_moving_sens_0_100,
        st_sens   |-> shs_static_sens_0_100,
        mv_gate   |-> shs_moving_max_gate,
        st_gate   |-> shs_static_max_gate,
        mv10      |-> shs_sens_mv_0_10,
        st10      |-> shs_sens_st_0_10,
        moving    |-> shs_moving_state,
        active    |-> shs_mv_cooldown_active,
        deadline  |-> shs_mv_cooldown_deadline_ms,
        q         |-> shs_save_q,
        tx        |-> uart_tx,
        ou_delay  |-> zb_attr.ou_delay,
        locked    |-> FALSE,
        sent      |-> <<>>]

\* variant: a cooldown write of 0 also clears the published moving state
WriteMovementCooldown_ClearsMoving(c, v0, now_ms) ==
    LET v  == IF v0 > SHS_COOLDOWN_MAX_SEC THEN SHS_COOLDOWN_MAX_SEC ELSE v0
        c1 == [c EXCEPT !.cd = v,
                        !.q = shs_save_enqueue(@, "SHS_SAVE_IMMEDIATE_U16",
                                               SHS_ATTR_MOVEMENT_COOLDOWN * 256)]
    IN  IF c1.cd = 0
        THEN [c1 EXCEPT !.active = FALSE, !.moving = FALSE]
        ELSE IF c.cd = 0 /\ c1.moving /\ ~c1.active
             THEN [c1 EXCEPT !.active = TRUE,
                             !.deadline = U32Add(now_ms, CooldownMs(c1.cd))]
             ELSE c1

\* shs01.c:318-331
\* variant: a cooldown write never starts the timer
WriteMovementCooldown_NeverArms(c, v0, now_ms) ==
    LET v  == IF v0 > SHS_COOLDOWN_MAX_SEC THEN SHS_COOLDOWN_MAX_SEC ELSE v0
        c1 == [c EXCEPT !.cd = v,
                        !.q = shs_save_enqueue(@, "SHS_SAVE_IMMEDIATE_U16",
                                               SHS_ATTR_MOVEMENT_COOLDOWN * 256)]
    IN  IF c1.cd = 0 THEN [c1 EXCEPT !.active = FALSE] ELSE c1

WriteMovementCooldown(c, v0, now_ms) ==
    LET v  == IF v0 > SHS_COOLDOWN_MAX_SEC THEN SHS_COOLDOWN_MAX_SEC ELSE v0
        was_zero == (c.cd = 0)
        c1 == [c EXCEPT !.cd = v,
                        !.q = shs_save_enqueue(@, "SHS_SAVE_IMMEDIATE_U16",
                                               SHS_ATTR_MOVEMENT_COOLDOWN * 256)]
    IN  IF c1.cd = 0
        THEN [c1 EXCEPT !.active = FALSE]
        ELSE IF was_zero /\ c1.moving /\ ~c1.active
             THEN [c1 EXCEPT !.active = TRUE,
                             !.deadline = U32Add(now_ms, CooldownMs(c1.cd))]
             ELSE c1

\* shs_zb_set_ou_delay_ep2 (shs01.c:280-291)
shs_zb_set_ou_delay_ep2(c, ready, seconds) ==
    IF ~ready THEN c
    ELSE [c EXCEPT !.locked = TRUE, !.ou_delay = seconds]

\* shs01.c:332-338, with shs_ld2410_apply_no_one_duration (246-250)
WriteOccClearCooldown(c, v, ready) ==
    LET c1 == [c EXCEPT !.occ_clear = v]
        c2 == [c1 EXCEPT !.tx = shs_ld2410_apply_params_all(c1),
                        !.sent = @ \o shs_ld2410_apply_params_all(c1)]
        c3 == shs_zb_set_ou_delay_ep2(c2, ready, c2.occ_clear)
    IN  [c3 EXCEPT !.q = shs_save_enqueue(@, "SHS_SAVE_IMMEDIATE_U16",
                                          SHS_ATTR_OCC_CLEAR_COOLDOWN * 256)]

\* shs01.c:339-347
WriteMovingSens(c, v0) ==
    LET v  == IF v0 > 10 THEN 10 ELSE v0
        c1 == [c EXCEPT !.mv10 = v, !.mv_sens = (v * 10) % 256]
        c2 == [c1 EXCEPT !.tx = shs_ld2410_apply_global_sensitivity(c1),
                        !.sent = @ \o shs_ld2410_apply_global_sensitivity(c1)]
    IN  [c2 EXCEPT !.q = shs_save_enqueue(@, "SHS_SAVE_DEBOUNCE_SENS_MOVE", c2.mv_sens)]

\* shs01.c:348-356
WriteStaticSens(c, v0) ==
    LET v  == IF v0 > 10 THEN 10 ELSE v0
        c1 == [c EXCEPT !.st10 = v, !.st_sens = (v * 10) % 256]
        c2 == [c1 EXCEPT !.tx = shs_ld2410_apply_global_sensitivity(c1),
                        !.sent = @ \o shs_ld2410_apply_global_sensitivity(c1)]
    IN  [c2 EXCEPT !.q = shs_save_enqueue(@, "SHS_SAVE_DEBOUNCE_SENS_STATIC", c2.st_sens)]

\* variant: a moving gate write that sends nothing to the LD2410
WriteMovingGate_NoCommand(c, v0) ==
    LET v  == IF v0 > 8 THEN 8 ELSE v0
        c1 == [c EXCEPT !.mv_gate = v]
    IN  [c1 EXCEPT !.q = shs_save_enqueue(@, "SHS_SAVE_DEBOUNCE_GATE_MOVE", c1.mv_gate)]

\* shs01.c:357-364
WriteMovingGate(c, v0) ==
    LET v  == IF v0 > 8 THEN 8 ELSE v0
        c1 == [c EXCEPT !.mv_gate = v]
        c2 == [c1 EXCEPT !.tx = shs_ld2410_apply_params_all(c1),
                        !.sent = @ \o shs_ld2410_apply_params_all(c1)]
    IN  [c2 EXCEPT !.q = shs_save_enqueue(@, "SHS_SAVE_DEBOUNCE_GATE_MOVE", c2.mv_gate)]

\* variant: the static gate is only clamped from above
WriteStaticGate_NoLowerClamp(c, v0) ==
    LET v  == IF v0 > 8 THEN 8 ELSE v0
        c1 == [c EXCEPT !.st_gate = v]
        c2 == [c1 EXCEPT !.tx = shs_ld2410_apply_params_all(c1),
                        !.sent = @ \o shs_ld2410_apply_params_all(c1)]
    IN  [c2 EXCEPT !.q = shs_save_enqueue(@, "SHS_SAVE_DEBOUNCE_GATE_STATIC", c2.st_gate)]

\* shs01.c:365-372
WriteStaticGate(c, v0) ==
    LET v  == IF v0 < 2 THEN 2 ELSE IF v0 > 8 THEN 8 ELSE v0
        c1 == [c EXCEPT !.st_gate = v]
        c2 == [c1 EXCEPT !.tx = shs_ld2410_apply_params_all(c1),
                        !.sent = @ \o shs_ld2410_apply_params_all(c1)]
    IN  [c2 EXCEPT !.q = shs_save_enqueue(@, "SHS_SAVE_DEBOUNCE_GATE_STATIC", c2.st_gate)]

\* the debounced field an attribute id of the configuration cluster sets
DebAttrField(attr) ==
    CASE attr = SHS_ATTR_MOVING_SENS_0_10 -> "mv_sens"
      [] attr = SHS_ATTR_STATIC_SENS_0_10 -> "st_sens"
      [] attr = SHS_ATTR_MOVING_MAX_GATE  -> "mv_gate"
      [] attr = SHS_ATTR_STATIC_MAX_GATE  -> "st_gate"
      [] OTHER -> "none"

\* the value the handler asked to save for field f (shs01.c:343, 352, 360, 368)
ReqValue(c, f) ==
    CASE f = "mv_sens" -> c.mv_sens
      [] f = "st_sens" -> c.st_sens
      [] f = "mv_gate" -> c.mv_gate
      [] f = "st_gate" -> c.st_gate

\* shs01.c:317-375: the switch on the attribute id
CfgSwitch(c, attr, v, now_ms, ready) ==
    CASE attr = SHS_ATTR_MOVEMENT_COOLDOWN  -> WriteMovementCooldown(c, v, now_ms)
      [] attr = SHS_ATTR_OCC_CLEAR_COOLDOWN -> WriteOccClearCooldown(c, v, ready)
      [] attr = SHS_ATTR_MOVING_SENS_0_10   -> WriteMovingSens(c, v)
      [] attr = SHS_ATTR_STATIC_SENS_0_10   -> WriteStaticSens(c, v)
      [] attr = SHS_ATTR_MOVING_MAX_GATE    -> WriteMovingGate(c, v)
      [] attr = SHS_ATTR_STATIC_MAX_GATE    -> WriteStaticGate(c, v)
      [] OTHER -> c

(* ------------------------------------------------------------------ *)
(* NVS (shs01.c:34-41, 93-109, 118-156).  nvs maps each key to its      *)
(* stored value, or to NoValue when the key was never written.          *)
(* ------------------------------------------------------------------ *)
NvsKeys == {"mv_cd", "occ_cd", "mv_sens", "st_sens", "mv_gate", "st_gate"}

NoValue == 0 - 1

NvsEmpty == [k \in NvsKeys |-> NoValue]

\* variant: only the low byte of the value is stored
shs_cfg_save_u16_LowByte(n, key, v, open_ok) ==
    IF open_ok THEN [n EXCEPT ![key] = v % 256] ELSE n

\* shs_cfg_save_u16: nothing is written when nvs_open fails
shs_cfg_save_u16(n, key, v, open_ok) == IF open_ok THEN [n EXCEPT ![key] = v] ELSE n

\* shs_cfg_save_u8: nothing is written when nvs_open fails
shs_cfg_save_u8(n, key, v, open_ok) == IF open_ok THEN [n EXCEPT ![key] = v] ELSE n

\* the initial values of the configuration variables (shs01.c:44-56)
CfgDefaults == [cd |-> 0, occ_clear |-> 0, mv_sens |-> 60, st_sens |-> 50,
                mv_gate |-> 8, st_gate |-> 8, mv10 |-> 6, st10 |-> 5]

\* variant: the proxies are the primaries divided by 10, rounded down
shs_cfg_sync_sens_proxies_Truncating(c) ==
    [c EXCEPT !.mv10 = Min(c.mv_sens \div 10, 10),
              !.st10 = Min(c.st_sens \div 10, 10)]

shs_cfg_sync_sens_proxies(c) ==
    [c EXCEPT !.mv10 = Min((c.mv_sens + 5) \div 10, 10),
              !.st10 = Min((c.st_sens + 5) \div 10, 10)]

shs_cfg_load_from_nvs(c, n, open_ok) ==
    IF ~open_ok THEN c
    ELSE shs_cfg_sync_sens_proxies(
           [c EXCEPT
              !.cd = IF n["mv_cd"] = NoValue THEN @
                     ELSE Min(n["mv_cd"], SHS_COOLDOWN_MAX_SEC),
              !.occ_clear = IF n["occ_cd"] = NoValue THEN @ ELSE n["occ_cd"],
              !.mv_sens = IF n["mv_sens"] = NoValue THEN @ ELSE Min(n["mv_sens"], 100),
              !.st_sens = IF n["st_sens"] = NoValue THEN @ ELSE Min(n["st_sens"], 100),
              !.mv_gate = IF n["mv_gate"] = NoValue THEN @ ELSE Min(n["mv_gate"], 8),
              !.st_gate = IF n["st_gate"] = NoValue THEN @
                          ELSE Max(2, Min(n["st_gate"], 8))])

\* the three published signals
PubSignals == {"moving", "static", "occupancy"}

\* the values of signal sig among the setter calls pubs, in order
RECURSIVE PubValues(_, _)
PubValues(pubs, sig) ==
    IF pubs = <<>> THEN <<>>
    ELSE (IF Head(pubs)[1] = sig THEN <<Head(pubs)[2]>> ELSE <<>>)
         \o PubValues(Tail(pubs), sig)

\* the last value of each signal after the setter calls pubs
LastPub(last, pubs) ==
    [s \in PubSignals |->
        LET v == PubValues(pubs, s)
        IN  IF v = <<>> THEN last[s] ELSE <<v[Len(v)]>>]

(* ------------------------------------------------------------------ *)
(* History bookkeeping                                                  *)
(* ------------------------------------------------------------------ *)
HistInit(garbage, frame) ==
    [follow     |-> FALSE,     \* the history of the presence signals (sampled,
                               \* disabled, step_pubs, last_pub, armed) is kept
     steps      |-> 0,         \* Advance steps taken
     since_pos  |-> NoValue,   \* ms since the last positive raw moving sample
     cd_written |-> FALSE,     \* cooldown written since that sample
     garbage    |-> garbage,   \* the header-free bytes sent before the frame
     frame      |-> frame,     \* the frame sent after them
     reads      |-> 0,         \* reads of len > 0 done
     rx_total   |-> 0,         \* bytes returned by uart_read_bytes
     dropped    |-> 0,         \* bytes removed with a frame
     lost       |-> 0,         \* bytes read but not copied
     max_held   |-> 0,         \* largest acc_len seen
     writes     |-> 0,         \* attribute writes handled
     deb_writes |-> 0,         \* of these, writes of a debounced field
     last_req   |-> [f \in DebFields |-> NoValue],   \* last value requested
     last_req_ms  |-> [f \in DebFields |-> U32Zero], \* and when
     last_dropped |-> [f \in DebFields |-> FALSE],   \* xQueueSend refused it
     flush_failed |-> [f \in DebFields |-> FALSE],   \* nvs_open failed for it
     saves      |-> [f \in DebFields |-> 0],         \* durable writes done
     early      |-> FALSE,     \* a field was saved before its quiet period ended
     signals    |-> 0,         \* stack signals handled
     cooldown_writer |-> "none",   \* task that last changed the cooldown timer
     sampled    |-> FALSE,     \* the last serial iteration processed a report
     disabled   |-> "no",      \* cooldown set to 0 while held: "written", then
                               \* "sampled" once the next report is processed
     step_pubs  |-> <<>>,      \* setter calls of the serial task step just
                               \* taken; the clock and the zigbee task empty it
     last_pub   |-> [s \in PubSignals |-> <<>>],  \* the value the serial task
                               \* last handed to the setter of each signal
     tx_log     |-> <<>>,      \* every frame written to the UART, in order
     last_write |-> <<>>,      \* endpoint, cluster, attribute id, type and
                               \* value of the last attribute write handled
     ret        |-> "none",    \* what the attribute handler last returned
     last_hdr   |-> NoValue,   \* offset in the copied byte stream of the header
                               \* of the last event the scan loop emitted
     kept       |-> 0,         \* bytes the last move to the front of the
                               \* buffer carried along after an event
     expiry     |-> "none",    \* what the serial task step just taken did with
                               \* a running timer: "waiting", "ended", "extended"
     imm_save   |-> <<>>,      \* key and nvs_open outcome of the immediate save
                               \* of the worker iteration under way
     armed      |-> "no"]      \* "yes" once a cooldown write armed the timer,
                               \* then "cleared" when moving is cleared, or
                               \* "void" after a positive report or another
                               \* cooldown write

\* no write is being handled; the serial task waits in uart_read_bytes
SerialLocalsInit == [evs |-> <<>>, byte |-> 0, now |-> U32Zero]

CtxInit == [h_pc       |-> "idle",    \* next statement of the cooldown case
            h_v        |-> 0,         \* v, clamped
            h_was_zero |-> FALSE,     \* was_zero
            s_pc       |-> "read",    \* next statement of the serial task
            s_pub      |-> <<>>,      \* the setter call it is blocked in
            s_l        |-> SerialLocalsInit]

(* ------------------------------------------------------------------ *)
(* Initial state: app_main has loaded the configuration from NVS and    *)
(* pushed it to the LD2410 (shs01.c:809-849)                            *)
(* ------------------------------------------------------------------ *)
InitFollowing(nvs0, open_ok, now0, start0, stream, garbage, frame, follow) ==
    LET c == shs_cfg_load_from_nvs(CfgDefaults, nvs0, open_ok)
    IN  /\ shs_movement_cooldown_sec = c.cd
        /\ shs_occupancy_clear_sec = c.occ_clear
        /\ shs_moving_sens_0_100 = c.mv_sens
        /\ shs_static_sens_0_100 = c.st_sens
        /\ shs_moving_max_gate = c.mv_gate
        /\ shs_static_max_gate = c.st_gate
        /\ shs_sens_mv_0_10 = c.mv10
        /\ shs_sens_st_0_10 = c.st10
        /\ shs_moving_state = FALSE
        /\ shs_static_state = FALSE
        /\ shs_occupancy_state = FALSE
        /\ shs_mv_cooldown_active = FALSE
        /\ shs_mv_cooldown_deadline_ms = U32Zero
        /\ shs_last_moving_sample = FALSE
        /\ shs_zb_ready = FALSE
        /\ acc = <<>>
        /\ start = start0
        /\ acc_len = 0
        /\ rx_stream = stream
        /\ now = now0
        /\ uart_tx = shs_ld2410_apply_params_all(c)
        /\ light_power = FALSE
        /\ zb_attr = [moving |-> FALSE, static |-> FALSE, occ |-> FALSE, ou_delay |-> 0]
        /\ shs_save_q = <<>>
        /\ pend = [f \in DebFields |-> FALSE]
        /\ last_upd = [f \in DebFields |-> U32Zero]
        /\ save_val = [f \in DebFields |->
                          CASE f = "mv_sens" -> c.mv_sens
                            [] f = "st_sens" -> c.st_sens
                            [] f = "mv_gate" -> c.mv_gate % 256
                            [] f = "st_gate" -> c.st_gate % 256]
        /\ worker_pc = "recv"
        /\ nvs = nvs0
        /\ events = <<>>
        /\ zb_lock_log = {}
        /\ last_task = "app_main"
        /\ hist = [HistInit(garbage, frame) EXCEPT
                      !.follow = follow,
                      !.tx_log = shs_ld2410_apply_global_sensitivity(c)
                                 \o shs_ld2410_apply_params_all(c)]
        /\ ctx = CtxInit

\* the same without the history of the presence signals
InitWith(nvs0, open_ok, now0, start0, stream, garbage, frame) ==
    InitFollowing(nvs0, open_ok, now0, start0, stream, garbage, frame, FALSE)

\* the clock at the start: just after boot, or shortly before it wraps
BootClocks == {U32Zero, <<W16 - 1, W16 - 2 * StepMs>>}

(* ------------------------------------------------------------------ *)
(* shs_ld2410_task: one iteration of the loop (shs01.c:456-520) in      *)
(* which uart_read_bytes returns rx and leaves rest on the line         *)
(* ------------------------------------------------------------------ *)
\* the effect of the attribute setter calls on the attribute table
RECURSIVE ApplyPubs(_, _)
ApplyPubs(tbl, pubs) ==
    IF pubs = <<>> THEN tbl
    ELSE LET pb == Head(pubs)
         IN  ApplyPubs(CASE pb[1] = "moving"    -> [tbl EXCEPT !.moving = pb[2]]
                         [] pb[1] = "static"    -> [tbl EXCEPT !.static = pb[2]]
                         [] pb[1] = "occupancy" -> [tbl EXCEPT !.occ = pb[2]],
                       Tail(pubs))

\* index (from 1) of the last positive raw moving sample in evs, or 0
LastPositive(evs) ==
    LET pos == {k \in 1 .. Len(evs) : RawMoving(evs[k])}
    IN  IF pos = {} THEN 0 ELSE CHOOSE k \in pos : \A j \in pos : j <= k

\* variant: the loop ticks the cooldown only inside the processing of a report
LoopTick_OnlyWithReports(p, cd, now_ms) == p

\* shs01.c:519: the tick that ends every iteration of the loop, with or
\* without data
LoopTick(p, cd, now_ms) == shs_mv_cooldown_tick(p, cd, now_ms)

LdTaskIter(rx, rest, keep_history) ==
    LET d  == IF rx = <<>>
              THEN [w |-> acc, start |-> start, evs |-> <<>>, lost |-> 0, dropped |-> 0]
              ELSE Decode(acc, start, rx)
        p1 == ProcessAll(Pres, shs_movement_cooldown_sec, now, d.evs)
        p2 == LoopTick(p1, shs_movement_cooldown_sec, now)
    IN  /\ acc' = d.w
        /\ start' = d.start
        /\ acc_len' = Len(d.w)
        /\ rx_stream' = rest
        /\ shs_moving_state' = p2.moving
        /\ shs_static_state' = p2.static
        /\ shs_occupancy_state' = p2.occ
        /\ shs_mv_cooldown_active' = p2.active
        /\ shs_mv_cooldown_deadline_ms' = p2.deadline
        /\ shs_last_moving_sample' = p2.last
        /\ zb_attr' = IF shs_zb_ready THEN ApplyPubs(zb_attr, p2.pubs) ELSE zb_attr
        /\ zb_lock_log' = IF shs_zb_ready /\ p2.pubs # <<>>
                          THEN zb_lock_log \cup {"ld2410_task"}
                          ELSE zb_lock_log
        /\ events' = IF keep_history THEN events \o d.evs ELSE events
        /\ hist' = [hist EXCEPT
                      !.since_pos  = IF LastPositive(d.evs) # 0 THEN 0 ELSE @,
                      !.cd_written = IF LastPositive(d.evs) # 0 THEN FALSE ELSE @,
                      !.reads    = IF keep_history /\ rx # <<>> THEN @ + 1 ELSE @,
                      !.rx_total = IF keep_history THEN @ + Len(rx) ELSE @,
                      !.dropped  = IF keep_history THEN @ + d.dropped ELSE @,
                      !.lost     = IF keep_history THEN @ + d.lost ELSE @,
                      !.max_held = IF keep_history THEN Max(@, Len(d.w)) ELSE @,
                      !.cooldown_writer =
                         IF p2.active # shs_mv_cooldown_active
                            \/ p2.deadline # shs_mv_cooldown_deadline_ms
                         THEN "ld2410_task" ELSE @,
                      !.expiry   =
                         IF shs_movement_cooldown_sec = 0 \/ ~shs_mv_cooldown_active
                         THEN "none"
                         ELSE IF ~shs_time_reached(now, shs_mv_cooldown_deadline_ms)
                         THEN "waiting"
                         ELSE IF p2.last THEN "extended" ELSE "ended",
                      !.sampled  = hist.follow /\ d.evs # <<>>,
                      !.step_pubs = IF hist.follow THEN p2.pubs ELSE @,
                      !.last_pub  = IF hist.follow THEN LastPub(@, p2.pubs) ELSE @,
                      !.disabled = IF ~hist.follow \/ d.evs = <<>> THEN @
                                   ELSE IF @ = "written" THEN "sampled" ELSE "no",
                      !.armed    = IF ~hist.follow \/ @ # "yes" THEN @
                                   ELSE IF LastPositive(d.evs) # 0 THEN "void"
                                   ELSE IF ~p2.moving THEN "cleared" ELSE @]
        /\ last_task' = "ld2410_task"
        /\ UNCHANGED <<ctx, cfgVars, saveVars, shs_zb_ready, now, uart_tx, light_power>>

\* a report that fills one read: SHS_UART_BUF_SIZE bytes in all
FullReadFrame(state_byte) ==
    RxFrame(RxPayload(state_byte, [k \in 1 .. (SHS_UART_BUF_SIZE - 13) |-> 0]))

\* the sensor sends one complete report, read in one piece
UartReadFrame(state_byte) ==
    /\ rx_stream = <<>>
    /\ LdTaskIter(FullReadFrame(state_byte), <<>>, FALSE)

\* uart_read_bytes times out without data
UartTimeout ==
    /\ rx_stream = <<>>
    /\ LdTaskIter(<<>>, <<>>, FALSE)

\* uart_read_bytes returns the next n bytes of the line
UartReadChunk(n) ==
    /\ n >= 1
    /\ n <= Len(rx_stream)
    /\ n <= SHS_UART_BUF_SIZE
    /\ LdTaskIter(SubSeq(rx_stream, 1, n),
                  SubSeq(rx_stream, n + 1, Len(rx_stream)), TRUE)

(* ------------------------------------------------------------------ *)
(* Time                                                                 *)
(* ------------------------------------------------------------------ *)
\* the tick count moves on by StepMs
Tick ==
    /\ now' = U32Add(now, StepMs)
    /\ hist' = [hist EXCEPT !.steps = @ + 1,
                            !.expiry = "none",
                            !.step_pubs = <<>>,
                            !.since_pos = IF @ = NoValue THEN @ ELSE @ + StepMs]
    /\ last_task' = "clock"
    /\ UNCHANGED <<ctx, cfgVars, presVars, decVars, saveVars, shs_zb_ready, rx_stream,
                   uart_tx, light_power, zb_attr, events, zb_lock_log>>

Advance == hist.steps < MaxSteps /\ Tick

(* ------------------------------------------------------------------ *)
(* Zigbee task: the attribute write callback (shs01.c:294-378)          *)
(* ------------------------------------------------------------------ *)
AttrWrite(ep, cluster, attr, type, v) ==
    LET is_light == /\ ep = SHS_EP_LIGHT
                    /\ cluster = ESP_ZB_ZCL_CLUSTER_ID_ON_OFF
                    /\ attr = ESP_ZB_ZCL_ATTR_ON_OFF_ON_OFF_ID
                    /\ type = ESP_ZB_ZCL_ATTR_TYPE_BOOL
        is_cfg   == /\ ep = SHS_EP_LIGHT
                    /\ cluster = SHS_CL_CFG_ID
                    /\ type = ESP_ZB_ZCL_ATTR_TYPE_U16
        c == IF ~is_light /\ is_cfg
             THEN CfgSwitch(Cfg, attr, v, now, shs_zb_ready)
             ELSE Cfg
        f == IF ~is_light /\ is_cfg THEN DebAttrField(attr) ELSE "none"
    IN  /\ light_power' = IF is_light THEN (v # 0) ELSE light_power
        /\ shs_moving_state' = c.moving
        /\ shs_movement_cooldown_sec' = c.cd
        /\ shs_occupancy_clear_sec' = c.occ_clear
        /\ shs_moving_sens_0_100' = c.mv_sens
        /\ shs_static_sens_0_100' = c.st_sens
        /\ shs_moving_max_gate' = c.mv_gate
        /\ shs_static_max_gate' = c.st_gate
        /\ shs_sens_mv_0_10' = c.mv10
        /\ shs_sens_st_0_10' = c.st10
        /\ shs_mv_cooldown_active' = c.active
        /\ shs_mv_cooldown_deadline_ms' = c.deadline
        /\ shs_save_q' = c.q
        /\ uart_tx' = c.tx
        /\ zb_attr' = [zb_attr EXCEPT !.ou_delay = c.ou_delay]
        /\ zb_lock_log' = IF c.locked THEN zb_lock_log \cup {"attribute_handler"}
                          ELSE zb_lock_log
        /\ hist' = [hist EXCEPT
                      !.writes = @ + 1,
                      !.expiry = "none",
                      !.step_pubs = <<>>,
                      !.cd_written =
                         IF ~is_light /\ is_cfg /\ attr = SHS_ATTR_MOVEMENT_COOLDOWN
                         THEN TRUE ELSE @,
                      !.deb_writes = IF f # "none" THEN @ + 1 ELSE @,
                      !.last_req = IF f # "none"
                                   THEN [@ EXCEPT ![f] = ReqValue(c, f)] ELSE @,
                      !.last_req_ms = IF f # "none"
                                      THEN [@ EXCEPT ![f] = now] ELSE @,
                      !.last_dropped =
                         IF f # "none"
                         THEN [@ EXCEPT ![f] = (Len(shs_save_q) >= SHS_SAVE_Q_LEN)]
                         ELSE @,
                      !.cooldown_writer =
                         IF c.active # shs_mv_cooldown_active
                            \/ c.deadline # shs_mv_cooldown_deadline_ms
                         THEN "zigbee_task" ELSE @,
                      !.disabled =
                         IF /\ hist.follow
                            /\ shs_movement_cooldown_sec # 0 /\ c.cd = 0
                            /\ shs_moving_state /\ shs_mv_cooldown_active
                         THEN "written" ELSE @,
                      !.last_write = <<ep, cluster, attr, type, v>>,
                      !.ret = "ESP_OK",
                      !.tx_log = @ \o c.sent,
                      !.armed =
                         IF \/ ~hist.follow
                            \/ is_light \/ ~is_cfg \/ attr # SHS_ATTR_MOVEMENT_COOLDOWN
                         THEN @
                         ELSE IF /\ shs_movement_cooldown_sec = 0 /\ c.cd > 0
                                 /\ shs_moving_state /\ ~shs_mv_cooldown_active
                              THEN "yes"
                              ELSE IF @ = "yes" THEN "void" ELSE @]
        /\ last_task' = "zigbee_task"
        /\ UNCHANGED <<ctx, shs_static_state, shs_occupancy_state,
                       shs_last_moving_sample, decVars, pend, last_upd, save_val,
                       worker_pc, nvs, shs_zb_ready, rx_stream, now, events>>

\* a write of the movement cooldown on the configuration cluster
WriteCooldown(v) ==
    AttrWrite(SHS_EP_LIGHT, SHS_CL_CFG_ID, SHS_ATTR_MOVEMENT_COOLDOWN,
              ESP_ZB_ZCL_ATTR_TYPE_U16, v)

(* ------------------------------------------------------------------ *)
(* Zigbee task: the stack signal callback (shs01.c:597-655)             *)
(* ------------------------------------------------------------------ *)
Signals == {"SKIP_STARTUP", "DEVICE_FIRST_START", "DEVICE_REBOOT", "STEERING", "OTHER"}

ZbSignal(sig_type, err_ok) ==
    LET starts == sig_type \in {"DEVICE_FIRST_START", "DEVICE_REBOOT"} /\ err_ok
    IN  /\ shs_zb_ready' = IF starts THEN TRUE ELSE shs_zb_ready
        /\ zb_attr' = IF starts
                      THEN [moving   |-> shs_moving_state,
                            static   |-> shs_static_state,
                            occ      |-> shs_occupancy_state,
                            ou_delay |-> shs_occupancy_clear_sec]
                      ELSE zb_attr
        /\ zb_lock_log' = IF starts THEN zb_lock_log \cup {"signal_handler"}
                          ELSE zb_lock_log
        /\ hist' = [hist EXCEPT !.signals = @ + 1, !.step_pubs = <<>>]
        /\ last_task' = "zigbee_task"
        /\ UNCHANGED <<ctx, cfgVars, presVars, decVars, saveVars, rx_stream, now,
                       uart_tx, light_power, events>>

(* ------------------------------------------------------------------ *)
(* Save worker (shs01.c:755-806).  The zigbee task has the higher       *)
(* priority (shs01.c:843, 848), so it can run between the worker's      *)
(* xQueueReceive and its reading of the tick count: the loop body is    *)
(* two steps.                                                           *)
(* ------------------------------------------------------------------ *)
\* variant: the operands of the subtraction are exchanged
DebounceElapsed_Swapped(now_ms, last) == U32AtLeast(U32Sub(last, now_ms), SHS_NVS_DEBOUNCE_MS)

\* shs01.c:789: (now - last) >= pdMS_TO_TICKS(SHS_NVS_DEBOUNCE_MS)
DebounceElapsed(now_ms, last) == U32AtLeast(U32Sub(now_ms, last), SHS_NVS_DEBOUNCE_MS)

\* shs01.c:764-786: xQueueReceive and the switch on the message type;
\* an empty queue makes xQueueReceive time out
WorkerReceive(open_ok) ==
    /\ worker_pc = "recv"
    /\ worker_pc' = "flush"
    /\ last_task' = "save_worker"
    /\ IF shs_save_q = <<>>
       THEN UNCHANGED <<shs_save_q, pend, last_upd, save_val, nvs>>
       ELSE LET m == Head(shs_save_q)
            IN  /\ shs_save_q' = Tail(shs_save_q)
                /\ IF m.type = "SHS_SAVE_IMMEDIATE_U16"
                   THEN /\ nvs' = IF m.u16 \div 256 = SHS_ATTR_MOVEMENT_COOLDOWN
                                  THEN shs_cfg_save_u16(nvs, "mv_cd",
                                           shs_movement_cooldown_sec, open_ok)
                                  ELSE IF m.u16 \div 256 = SHS_ATTR_OCC_CLEAR_COOLDOWN
                                  THEN shs_cfg_save_u16(nvs, "occ_cd",
                                           shs_occupancy_clear_sec, open_ok)
                                  ELSE nvs
                        /\ UNCHANGED <<pend, last_upd, save_val>>
                   ELSE /\ save_val' = [save_val EXCEPT ![DebKey(m.type)] = m.u16 % 256]
                        /\ pend' = [pend EXCEPT ![DebKey(m.type)] = TRUE]
                        /\ last_upd' = [last_upd EXCEPT ![DebKey(m.type)] = now]
                        /\ nvs' = nvs
    /\ hist' = [hist EXCEPT
                  !.imm_save =
                     IF shs_save_q = <<>>
                        \/ Head(shs_save_q).type # "SHS_SAVE_IMMEDIATE_U16"
                     THEN <<>>
                     ELSE IF Head(shs_save_q).u16 \div 256 = SHS_ATTR_MOVEMENT_COOLDOWN
                     THEN <<"mv_cd", open_ok>>
                     ELSE IF Head(shs_save_q).u16 \div 256 = SHS_ATTR_OCC_CLEAR_COOLDOWN
                     THEN <<"occ_cd", open_ok>>
                     ELSE <<>>]
    /\ UNCHANGED <<ctx, cfgVars, presVars, decVars, shs_zb_ready, rx_stream, now, uart_tx,
                   light_power, zb_attr, events, zb_lock_log>>

\* the fields the flush pass at now_ms writes out
Due(now_ms) == {f \in DebFields : pend[f] /\ DebounceElapsed(now_ms, last_upd[f])}

\* variant: a flush pass that saves a field clears every pending flag
WorkerFlush_ClearsAll(ok) ==
    LET due == Due(now)
    IN  /\ worker_pc = "flush"
        /\ worker_pc' = "recv"
        /\ last_task' = "save_worker"
        /\ nvs' = [k \in NvsKeys |->
                     IF k \in due
                     THEN shs_cfg_save_u8(nvs, k, save_val[k], k \in ok)[k]
                     ELSE nvs[k]]
        /\ pend' = [f \in DebFields |-> pend[f] /\ due = {}]
        /\ hist' = [hist EXCEPT
                      !.imm_save = <<>>,
                      !.saves = [f \in DebFields |->
                                   IF f \in due /\ f \in ok THEN @[f] + 1 ELSE @[f]],
                      !.flush_failed = [f \in DebFields |->
                                   IF f \in due THEN f \notin ok ELSE @[f]],
                      !.early = @ \/ \E f \in due :
                                   ~U32AtLeast(U32Sub(now, last_upd[f]),
                                               SHS_NVS_DEBOUNCE_MS)]
        /\ UNCHANGED <<ctx, cfgVars, presVars, decVars, shs_save_q, last_upd, save_val,
                       shs_zb_ready, rx_stream, now, uart_tx, light_power, zb_attr,
                       events, zb_lock_log>>

\* variant: a field whose save failed stays pending and is saved again later
WorkerFlush_Retrying(ok) ==
    LET due == Due(now)
    IN  /\ worker_pc = "flush"
        /\ worker_pc' = "recv"
        /\ last_task' = "save_worker"
        /\ nvs' = [k \in NvsKeys |->
                     IF k \in due
                     THEN shs_cfg_save_u8(nvs, k, save_val[k], k \in ok)[k]
                     ELSE nvs[k]]
        /\ pend' = [f \in DebFields |-> pend[f] /\ (f \notin due \/ f \notin ok)]
        /\ hist' = [hist EXCEPT
                      !.imm_save = <<>>,
                      !.saves = [f \in DebFields |->
                                   IF f \in due /\ f \in ok THEN @[f] + 1 ELSE @[f]],
                      !.flush_failed = [f \in DebFields |->
                                   IF f \in due THEN f \notin ok ELSE @[f]],
                      !.early = @ \/ \E f \in due :
                                   ~U32AtLeast(U32Sub(now, last_upd[f]),
                                               SHS_NVS_DEBOUNCE_MS)]
        /\ UNCHANGED <<ctx, cfgVars, presVars, decVars, shs_save_q, last_upd, save_val,
                       shs_zb_ready, rx_stream, now, uart_tx, light_power, zb_attr,
                       events, zb_lock_log>>

\* shs01.c:788-804: the tick count is read once, then each pending field
\* whose quiet period is over is saved; nvs_open succeeds for the fields in ok
WorkerFlush(ok) ==
    LET due == Due(now)
    IN  /\ worker_pc = "flush"
        /\ worker_pc' = "recv"
        /\ last_task' = "save_worker"
        /\ nvs' = [k \in NvsKeys |->
                     IF k \in due
                     THEN shs_cfg_save_u8(nvs, k, save_val[k], k \in ok)[k]
                     ELSE nvs[k]]
        /\ pend' = [f \in DebFields |-> pend[f] /\ f \notin due]
        /\ hist' = [hist EXCEPT
                      !.imm_save = <<>>,
                      !.saves = [f \in DebFields |->
                                   IF f \in due /\ f \in ok THEN @[f] + 1 ELSE @[f]],
                      !.flush_failed = [f \in DebFields |->
                                   IF f \in due THEN f \notin ok ELSE @[f]],
                      !.early = @ \/ \E f \in due :
                                   ~U32AtLeast(U32Sub(now, last_upd[f]),
                                               SHS_NVS_DEBOUNCE_MS)]
        /\ UNCHANGED <<ctx, cfgVars, presVars, decVars, shs_save_q, last_upd, save_val,
                       shs_zb_ready, rx_stream, now, uart_tx, light_power, zb_attr,
                       events, zb_lock_log>>

(* ------------------------------------------------------------------ *)
(* The cooldown write and the serial task, statement by statement.      *)
(* shs_ld2410_task has priority 6 and the zigbee task priority 5        *)
(* (shs01.c:846-848): the serial task runs from one blocking call to    *)
(* the next without the handler taking a step, and the handler takes    *)
(* its steps while the serial task waits in uart_read_bytes or in the   *)
(* esp_zb_lock_acquire(portMAX_DELAY) of an attribute setter            *)
(* (shs01.c:253-291), the zigbee task holding the lock around the       *)
(* callbacks it dispatches.                                             *)
(* ------------------------------------------------------------------ *)
\* the serial task from statement pc on, up to its next blocking call:
\* p is the presence record, l its locals; the result names the statement
\* it stops at and the setter call it is blocked in, if any
RECURSIVE SerialRun(_, _, _)
SerialRun(pc, p, l) ==
    LET cd == shs_movement_cooldown_sec
        moving == RawMoving(l.byte)
        \* an attribute setter, then the statement next
        Call(next, q, k, attr, value) ==
            IF shs_zb_ready
            THEN [p |-> q, pc |-> next, pub |-> <<attr, value>>, l |-> k]
            ELSE SerialRun(next, q, k)
        \* shs_mv_cooldown_tick(now_ms), continuing at deact after the
        \* publication of a cleared moving state and else at after
        TickBody(now_ms, deact, after) ==
            IF cd = 0 \/ ~p.active THEN SerialRun(after, p, l)
            ELSE IF shs_time_reached(now_ms, p.deadline)
                 THEN IF ~p.last
                      THEN IF p.moving
                           THEN Call(deact, [p EXCEPT !.moving = FALSE], l,
                                     "moving", FALSE)
                           ELSE SerialRun(deact, p, l)
                      ELSE SerialRun(after,
                              [p EXCEPT !.deadline = U32Add(now_ms, CooldownMs(cd))], l)
                 ELSE SerialRun(after, p, l)
    IN  CASE pc = "read" ->
               [p |-> p, pc |-> "read", pub |-> <<>>, l |-> SerialLocalsInit]
          [] pc = "event" ->          \* the next decoded report, shs01.c:408-435
               IF l.evs = <<>> THEN SerialRun("tick_end", p, l)
               ELSE LET k  == [evs |-> Tail(l.evs), byte |-> Head(l.evs), now |-> now]
                        m  == RawMoving(k.byte)
                        p0 == [p EXCEPT !.last = m]
                    IN  IF cd = 0
                        THEN IF m # p0.moving
                             THEN Call("static", [p0 EXCEPT !.moving = m], k, "moving", m)
                             ELSE SerialRun("static", p0, k)
                        ELSE IF ~p0.active
                             THEN IF m /\ ~p0.moving
                                  THEN Call("arm", [p0 EXCEPT !.moving = TRUE], k,
                                            "moving", TRUE)
                                  ELSE SerialRun("static", p0, k)
                             ELSE SerialRun("tick", p0, k)
          [] pc = "arm" ->            \* shs01.c:429-430
               SerialRun("static",
                         [p EXCEPT !.active = TRUE,
                                   !.deadline = U32Add(l.now, CooldownMs(cd))], l)
          [] pc = "tick" ->           \* shs01.c:433
               TickBody(l.now, "deact", "static")
          [] pc = "deact" ->          \* shs01.c:400, called from line 433
               SerialRun("static", [p EXCEPT !.active = FALSE], l)
          [] pc = "static" ->         \* shs01.c:437-441
               IF RawStatic(l.byte) # p.static
               THEN Call("occ", [p EXCEPT !.static = RawStatic(l.byte)], l,
                         "static", RawStatic(l.byte))
               ELSE SerialRun("occ", p, l)
          [] pc = "occ" ->            \* shs01.c:443-447
               IF RawPresence(l.byte) # p.occ
               THEN Call("event", [p EXCEPT !.occ = RawPresence(l.byte)], l,
                         "occupancy", RawPresence(l.byte))
               ELSE SerialRun("event", p, l)
          [] pc = "tick_end" ->       \* shs01.c:519
               TickBody(now, "deact_end", "read")
          [] pc = "deact_end" ->      \* shs01.c:400, called from line 519
               SerialRun("read", [p EXCEPT !.active = FALSE], l)

\* the serial task runs from statement pc: rx is what uart_read_bytes
\* returned if it starts an iteration, done the setter call it completes
SerialSegment(pc, rx, done) ==
    LET d == IF rx = <<>>
             THEN [w |-> acc, start |-> start, evs |-> <<>>, lost |-> 0, dropped |-> 0]
             ELSE Decode(acc, start, rx)
        l == IF pc = "event" THEN [ctx.s_l EXCEPT !.evs = d.evs] ELSE ctx.s_l
        r == SerialRun(pc, Pres, l)
    IN  /\ acc' = d.w
        /\ start' = d.start
        /\ acc_len' = Len(d.w)
        /\ shs_moving_state' = r.p.moving
        /\ shs_static_state' = r.p.static
        /\ shs_occupancy_state' = r.p.occ
        /\ shs_mv_cooldown_active' = r.p.active
        /\ shs_mv_cooldown_deadline_ms' = r.p.deadline
        /\ shs_last_moving_sample' = r.p.last
        /\ zb_attr' = ApplyPubs(zb_attr, done)
        /\ zb_lock_log' = IF done # <<>> THEN zb_lock_log \cup {"ld2410_task"}
                          ELSE zb_lock_log
        /\ ctx' = [ctx EXCEPT !.s_pc = r.pc, !.s_pub = r.pub, !.s_l = r.l]
        /\ hist' = [hist EXCEPT
                      !.sampled = IF pc = "event" THEN d.evs # <<>> ELSE @,
                      !.step_pubs = IF r.pub = <<>> THEN <<>> ELSE <<r.pub>>,
                      !.last_pub  = LastPub(@, IF r.pub = <<>> THEN <<>> ELSE <<r.pub>>),
                      !.cooldown_writer =
                         IF r.p.active # shs_mv_cooldown_active
                            \/ r.p.deadline # shs_mv_cooldown_deadline_ms
                         THEN "ld2410_task" ELSE @]
        /\ last_task' = "ld2410_task"
        /\ UNCHANGED <<cfgVars, saveVars, shs_zb_ready, rx_stream, now, uart_tx,
                       light_power, events>>

\* uart_read_bytes returns one complete report
SerialReadFrame(state_byte) ==
    /\ ctx.s_pc = "read"
    /\ SerialSegment("event", FullReadFrame(state_byte), <<>>)

\* uart_read_bytes times out
SerialTimeout ==
    /\ ctx.s_pc = "read"
    /\ SerialSegment("tick_end", <<>>, <<>>)

\* esp_zb_lock_acquire returns: the handler is not running
SerialResume ==
    /\ ctx.s_pc # "read"
    /\ ctx.h_pc = "idle"
    /\ SerialSegment(ctx.s_pc, <<>>, <<ctx.s_pub>>)

\* one statement group of case SHS_ATTR_MOVEMENT_COOLDOWN (shs01.c:318-331)
HandlerStep(h, cd, active, deadline, q) ==
    /\ shs_movement_cooldown_sec' = cd
    /\ shs_mv_cooldown_active' = active
    /\ shs_mv_cooldown_deadline_ms' = deadline
    /\ shs_save_q' = q
    /\ ctx' = [ctx EXCEPT !.h_pc = h.pc, !.h_v = h.v, !.h_was_zero = h.was_zero]
    /\ hist' = [hist EXCEPT
                  !.writes = IF ctx.h_pc = "idle" THEN @ + 1 ELSE @,
                  !.step_pubs = <<>>,
                  !.cooldown_writer =
                     IF active # shs_mv_cooldown_active
                        \/ deadline # shs_mv_cooldown_deadline_ms
                     THEN "zigbee_task" ELSE @]
    /\ last_task' = "zigbee_task"
    /\ UNCHANGED <<shs_occupancy_clear_sec, shs_moving_sens_0_100,
                   shs_static_sens_0_100, shs_moving_max_gate, shs_static_max_gate,
                   shs_sens_mv_0_10, shs_sens_st_0_10, shs_moving_state,
                   shs_static_state, shs_occupancy_state, shs_last_moving_sample,
                   decVars, pend, last_upd, save_val, worker_pc, nvs, shs_zb_ready,
                   rx_stream, now, uart_tx, light_power, zb_attr, events,
                   zb_lock_log>>

HandlerIdle == [pc |-> "idle", v |-> 0, was_zero |-> FALSE]

\* shs01.c:319-320: clamp v, read was_zero
HandlerBegin(v) ==
    /\ ctx.h_pc = "idle"
    /\ HandlerStep([pc |-> "set_cd",
                    v |-> IF v > SHS_COOLDOWN_MAX_SEC THEN SHS_COOLDOWN_MAX_SEC ELSE v,
                    was_zero |-> (shs_movement_cooldown_sec = 0)],
                   shs_movement_cooldown_sec, shs_mv_cooldown_active,
                   shs_mv_cooldown_deadline_ms, shs_save_q)

\* shs01.c:321-322: store the cooldown, ask for it to be saved
HandlerSetCooldown ==
    /\ ctx.h_pc = "set_cd"
    /\ HandlerStep([pc |-> "timer", v |-> ctx.h_v, was_zero |-> ctx.h_was_zero],
                   ctx.h_v, shs_mv_cooldown_active, shs_mv_cooldown_deadline_ms,
                   shs_save_enqueue(shs_save_q, "SHS_SAVE_IMMEDIATE_U16",
                                    SHS_ATTR_MOVEMENT_COOLDOWN * 256))

\* variant: a cooldown that becomes nonzero never starts the timer
HandlerTimer_NeverArms ==
    /\ ctx.h_pc = "timer"
    /\ HandlerStep(HandlerIdle, shs_movement_cooldown_sec,
                   shs_movement_cooldown_sec # 0 /\ shs_mv_cooldown_active,
                   shs_mv_cooldown_deadline_ms, shs_save_q)

\* shs01.c:323-326: cancel the timer, or set its active flag
HandlerTimer ==
    /\ ctx.h_pc = "timer"
    /\ IF shs_movement_cooldown_sec = 0
       THEN HandlerStep(HandlerIdle, shs_movement_cooldown_sec, FALSE,
                        shs_mv_cooldown_deadline_ms, shs_save_q)
       ELSE IF ctx.h_was_zero /\ shs_moving_state /\ ~shs_mv_cooldown_active
            THEN HandlerStep([pc |-> "deadline", v |-> ctx.h_v,
                              was_zero |-> ctx.h_was_zero],
                             shs_movement_cooldown_sec, TRUE,
                             shs_mv_cooldown_deadline_ms, shs_save_q)
            ELSE HandlerStep(HandlerIdle, shs_movement_cooldown_sec,
                             shs_mv_cooldown_active, shs_mv_cooldown_deadline_ms,
                             shs_save_q)

\* shs01.c:327: the deadline
HandlerDeadline ==
    /\ ctx.h_pc = "deadline"
    /\ HandlerStep(HandlerIdle, shs_movement_cooldown_sec, shs_mv_cooldown_active,
                   U32Add(now, CooldownMs(shs_movement_cooldown_sec)), shs_save_q)

(* ------------------------------------------------------------------ *)
(* Presence state machine under cooldown writes                         *)
(* ------------------------------------------------------------------ *)
CooldownNvs == {[NvsEmpty EXCEPT !["mv_cd"] = v] : v \in {NoValue} \cup 1 .. MaxCooldown}

InitPresence ==
    \E n \in CooldownNvs, t \in BootClocks :
        InitWith(n, TRUE, t, 0, <<>>, <<>>, <<>>)

NextPresence ==
    \/ \E b \in 0 .. MaxStateByte : UartReadFrame(b)
    \/ UartTimeout
    \/ Advance
    \/ \E v \in 0 .. MaxCooldown : hist.writes < MaxWrites /\ WriteCooldown(v)

SpecPresence == InitPresence /\ [][NextPresence]_vars

(* ------------------------------------------------------------------ *)
(* Frame reassembler fed header-free bytes and then one valid frame,    *)
(* in reads of any of the modelled lengths                              *)
(* ------------------------------------------------------------------ *)
\* bytes of the header-free prefix: 0x00 and the first header byte 0xF4
GarbageBytes == {0, 244}

GarbageSeqs == UNION {[1 .. n -> GarbageBytes] : n \in 0 .. MaxGarbage}

\* a prefix that fills the accumulator
OverflowGarbage == [k \in 1 .. SHS_UART_ACC_BUF_SIZE |-> 0]

\* what follows the state byte in the payload: nothing, the end marker of a
\* basic report, or data that happens to hold the receive header
PayloadRests == {<<>>, <<85, 0>>, SHS_LD2410_HDR_RX \o <<0>>}

ValidFrames == {RxFrame(RxPayload(b, r)) : b \in 0 .. MaxStateByte, r \in PayloadRests}

Scenarios ==
    {<<g, f>> : g \in GarbageSeqs, f \in ValidFrames}
    \cup {<<OverflowGarbage, RxFrame(RxPayload(1, <<>>))>>}

\* start when the accumulator is empty: 0 at boot, anything after drops
InitStarts == {0, SHS_UART_ACC_BUF_SIZE - SHS_LD2410_MIN_FRAME_BYTES}

InitDecoder ==
    \E sc \in Scenarios, s0 \in InitStarts :
        InitWith(NvsEmpty, TRUE, U32Zero, s0, sc[1] \o sc[2], sc[1], sc[2])

ReadLens == (1 .. MaxChunk) \cup {SHS_UART_BUF_SIZE}

\* a read shorter than the read buffer happens once less than a buffer's
\* worth is still to arrive; until then reads return a full buffer
NextDecoder ==
    \E n \in ReadLens :
        /\ n <= MaxChunk => Len(rx_stream) < SHS_UART_BUF_SIZE
        /\ UartReadChunk(n)

SpecDecoder == InitDecoder /\ [][NextDecoder]_vars


(* ------------------------------------------------------------------ *)
(* Persistence pipeline: bursts of writes to debounced fields, other    *)
(* configuration traffic ahead of them in the queue, and the worker     *)
(* ------------------------------------------------------------------ *)
\* two values for the moving sensitivity and one for the static gate
SaveRequests == {<<SHS_ATTR_MOVING_SENS_0_10, 3>>, <<SHS_ATTR_MOVING_SENS_0_10, 7>>,
                 <<SHS_ATTR_STATIC_MAX_GATE, 5>>}

\* a write of a debounced field that comes less than the quiet period
\* after the previous write of that field
BurstWrite(attr, v) ==
    /\ hist.deb_writes < MaxWrites
    /\ \/ hist.last_req[DebAttrField(attr)] = NoValue
       \/ ~U32AtLeast(U32Sub(now, hist.last_req_ms[DebAttrField(attr)]),
                      SHS_NVS_DEBOUNCE_MS)
    /\ AttrWrite(SHS_EP_LIGHT, SHS_CL_CFG_ID, attr, ESP_ZB_ZCL_ATTR_TYPE_U16, v)

\* a write of the movement cooldown, which queues an immediate save; these
\* come before the burst
FillWrite ==
    /\ hist.writes < MaxFill
    /\ hist.deb_writes = 0
    /\ hist.steps = 0
    /\ WriteCooldown(0)

\* the clock is followed for MaxSaveSteps steps, and after that for as
\* long as a dequeued value still waits for its quiet period to end
AdvanceSave ==
    /\ \/ hist.steps < MaxSaveSteps
       \/ /\ shs_save_q = <<>>
          /\ \E f \in DebFields : pend[f] /\ ~DebounceElapsed(now, last_upd[f])
    /\ Tick

WorkerReceiveStep == \E open_ok \in BOOLEAN : WorkerReceive(open_ok)

WorkerFlushStep == \E ok \in SUBSET Due(now) : WorkerFlush(ok)

InitSave == InitWith(NvsEmpty, TRUE, U32Zero, 0, <<>>, <<>>, <<>>)

NextSave ==
    \/ \E r \in SaveRequests : BurstWrite(r[1], r[2])
    \/ FillWrite
    \/ WorkerReceiveStep
    \/ WorkerFlushStep
    \/ AdvanceSave

\* the worker is the lowest-priority task and runs whenever the others
\* block, which they do in every iteration of their loops; the tick
\* interrupt always runs
SpecSave ==
    /\ InitSave
    /\ [][NextSave]_vars
    /\ WF_vars(WorkerReceiveStep)
    /\ WF_vars(WorkerFlushStep)
    /\ WF_vars(AdvanceSave)

(* ------------------------------------------------------------------ *)
(* The whole program: serial task, zigbee callbacks, worker, clock      *)
(* ------------------------------------------------------------------ *)
(* Cooldown writes against the serial task, statement by statement      *)
(* ------------------------------------------------------------------ *)
IlStateBytes == {0, 1}

InitInterleave ==
    \E n \in CooldownNvs : InitWith(n, TRUE, U32Zero, 0, <<>>, <<>>, <<>>)

NextInterleave ==
    \/ \E b \in IlStateBytes : SerialReadFrame(b)
    \/ SerialTimeout
    \/ SerialResume
    \/ \E v \in 0 .. MaxCooldown : hist.writes < MaxIlWrites /\ HandlerBegin(v)
    \/ HandlerSetCooldown
    \/ HandlerTimer
    \/ HandlerDeadline
    \/ hist.steps < MaxIlSteps /\ Tick
    \/ \E sig \in Signals, ok \in BOOLEAN :
          /\ ctx.h_pc = "idle"
          /\ hist.signals < MaxSignals
          /\ ZbSignal(sig, ok)

SpecInterleave == InitInterleave /\ [][NextInterleave]_vars

\* the same statement-level steps with the stack started once, by the
\* reboot signal, at any point between the handler's runs
NextHeld ==
    \/ \E b \in IlStateBytes : SerialReadFrame(b)
    \/ SerialTimeout
    \/ SerialResume
    \/ \E v \in 0 .. MaxCooldown : hist.writes < MaxHeldWrites /\ HandlerBegin(v)
    \/ HandlerSetCooldown
    \/ HandlerTimer
    \/ HandlerDeadline
    \/ hist.steps < MaxHeldSteps /\ Tick
    \/ ~shs_zb_ready /\ ctx.h_pc = "idle" /\ ZbSignal("DEVICE_REBOOT", TRUE)

SpecHeld == InitInterleave /\ [][NextHeld]_vars

(* ------------------------------------------------------------------ *)
(* A timer armed by a cooldown write, followed until it runs out        *)
(* ------------------------------------------------------------------ *)
ArmStateBytes == {0, 1, 2}

\* the clock moves on; past MaxArmSteps it does so only towards the
\* deadline of a timer that negative reports let run out
AdvanceArm ==
    /\ \/ hist.steps < MaxArmSteps
       \/ /\ shs_mv_cooldown_active
          /\ ~shs_last_moving_sample
          /\ ~shs_time_reached(now, shs_mv_cooldown_deadline_ms)
    /\ Tick

\* a report; positive ones come only during the first MaxArmSteps steps
ReportArm(b) ==
    /\ RawMoving(b) => hist.steps < MaxArmSteps
    /\ UartReadFrame(b)

InitArm ==
    \E t \in BootClocks : InitFollowing(NvsEmpty, TRUE, t, 0, <<>>, <<>>, <<>>, TRUE)

NextArm ==
    \/ \E b \in ArmStateBytes : ReportArm(b)
    \/ UartTimeout
    \/ AdvanceArm
    \/ \E v \in 0 .. MaxCooldown : hist.writes < MaxArmWrites /\ WriteCooldown(v)

\* the serial task has the highest priority and its read is time-bounded,
\* so its loop keeps running; the tick interrupt always runs
SpecArm ==
    /\ InitArm
    /\ [][NextArm]_vars
    /\ WF_vars(UartTimeout)
    /\ WF_vars(AdvanceArm)

(* ------------------------------------------------------------------ *)
(* Configuration: load at boot, then attribute writes                   *)
(* ------------------------------------------------------------------ *)
(* Publication of the presence signals: the serial task's reports and   *)
(* time-outs, the clock, writes of the cooldown and the stack's start   *)
(* signal, which may come before or after the first reports             *)
(* (shs01.c:253-291, 408-448, 612)                                      *)
(* ------------------------------------------------------------------ *)
InitPublish == InitFollowing(NvsEmpty, TRUE, U32Zero, 0, <<>>, <<>>, <<>>, TRUE)

NextPublish ==
    \/ \E b \in ArmStateBytes : ReportArm(b)
    \/ UartTimeout
    \/ AdvanceArm
    \/ \E v \in 0 .. MaxCooldown : hist.writes < MaxPubWrites /\ WriteCooldown(v)
    \/ ~shs_zb_ready /\ ZbSignal("DEVICE_REBOOT", TRUE)

SpecPublish == InitPublish /\ [][NextPublish]_vars

(* ------------------------------------------------------------------ *)
NvsOf(cd, occ, mvs, sts, mvg, stg) ==
    [mv_cd |-> cd, occ_cd |-> occ, mv_sens |-> mvs, st_sens |-> sts,
     mv_gate |-> mvg, st_gate |-> stg]

\* what the namespace may hold at boot: nothing, values beyond the ranges,
\* values at their edges, values inside
ConfigNvs ==
    {NvsEmpty,
     NvsOf(400, 400, 101, 255, 9, 0),
     NvsOf(300, 65535, 100, 95, 8, 1),
     NvsOf(7, 0, 44, 45, 0, 9)}

\* values carried by the writes
CfgValues == {0, 1, 5, 11, 400}

CfgWriteRequests ==
    {<<SHS_EP_LIGHT, SHS_CL_CFG_ID, a, ESP_ZB_ZCL_ATTR_TYPE_U16, v>> :
        a \in SHS_ATTR_MOVEMENT_COOLDOWN .. SHS_ATTR_STATIC_MAX_GATE, v \in CfgValues}
    \cup {<<SHS_EP_OCC, SHS_CL_CFG_ID, SHS_ATTR_STATIC_MAX_GATE,
             ESP_ZB_ZCL_ATTR_TYPE_U16, 5>>,
           <<SHS_EP_LIGHT, ESP_ZB_ZCL_CLUSTER_ID_ON_OFF, SHS_ATTR_STATIC_MAX_GATE,
             ESP_ZB_ZCL_ATTR_TYPE_U16, 5>>,
           <<SHS_EP_LIGHT, SHS_CL_CFG_ID, SHS_ATTR_STATIC_MAX_GATE + 1,
             ESP_ZB_ZCL_ATTR_TYPE_U16, 5>>,
           <<SHS_EP_LIGHT, SHS_CL_CFG_ID, 0, ESP_ZB_ZCL_ATTR_TYPE_U16, 5>>,
           <<SHS_EP_LIGHT, SHS_CL_CFG_ID, SHS_ATTR_STATIC_MAX_GATE,
             ESP_ZB_ZCL_ATTR_TYPE_BOOL, 5>>,
           <<SHS_EP_LIGHT, ESP_ZB_ZCL_CLUSTER_ID_ON_OFF,
             ESP_ZB_ZCL_ATTR_ON_OFF_ON_OFF_ID, ESP_ZB_ZCL_ATTR_TYPE_BOOL, 1>>}

InitConfig ==
    \E n \in ConfigNvs, open_ok \in BOOLEAN :
        InitWith(n, open_ok, U32Zero, 0, <<>>, <<>>, <<>>)

\* cooldown writes arriving faster than the save worker runs, until the
\* save queue is full
FillConfig ==
    /\ hist.writes = Len(shs_save_q)
    /\ hist.last_write \in {<<>>, <<SHS_EP_LIGHT, SHS_CL_CFG_ID,
                                   SHS_ATTR_MOVEMENT_COOLDOWN,
                                   ESP_ZB_ZCL_ATTR_TYPE_U16, 0>>}
    /\ Len(shs_save_q) < SHS_SAVE_Q_LEN
    /\ WriteCooldown(0)

\* the writes followed: the first MaxCfgWrites after boot, and as many
\* after the queue has been filled
ConfigWrite(w) ==
    /\ \/ hist.writes < MaxCfgWrites
       \/ /\ Len(shs_save_q) = SHS_SAVE_Q_LEN
          /\ hist.writes < SHS_SAVE_Q_LEN + MaxCfgWrites
    /\ AttrWrite(w[1], w[2], w[3], w[4], w[5])

NextConfig ==
    \/ \E w \in CfgWriteRequests : ConfigWrite(w)
    \/ FillConfig
    \/ \E sig \in {"DEVICE_FIRST_START", "DEVICE_REBOOT"} :
          ~shs_zb_ready /\ hist.writes = 0 /\ ZbSignal(sig, TRUE)

SpecConfig == InitConfig /\ [][NextConfig]_vars

(* ------------------------------------------------------------------ *)
(* The scan loop of shs_ld2410_task, one iteration per step             *)
(* (shs01.c:457-519): a read appends to the accumulator, then each      *)
(* iteration of the while loop either ends the loop or hands one state  *)
(* byte to shs_process_sensor_state and drops bytes                     *)
(* ------------------------------------------------------------------ *)
\* shs01.c:474, 484: the loop is entered and does not break
ScanContinues(w) ==
    /\ Len(w) >= SHS_LD2410_MIN_FRAME_BYTES
    /\ FindHeader(w, 0) + SHS_LD2410_MIN_FRAME_BYTES <= Len(w)

\* the presence variables after the serial task's calls left them as p
PresenceBecomes(p) ==
    /\ shs_moving_state' = p.moving
    /\ shs_static_state' = p.static
    /\ shs_occupancy_state' = p.occ
    /\ shs_mv_cooldown_active' = p.active
    /\ shs_mv_cooldown_deadline_ms' = p.deadline
    /\ shs_last_moving_sample' = p.last
    /\ zb_attr' = IF shs_zb_ready THEN ApplyPubs(zb_attr, p.pubs) ELSE zb_attr
    /\ zb_lock_log' = IF shs_zb_ready /\ p.pubs # <<>>
                      THEN zb_lock_log \cup {"ld2410_task"}
                      ELSE zb_lock_log

\* shs01.c:457-471: uart_read_bytes returns the next n bytes of the line
ScanRead(n) ==
    LET rx == SubSeq(rx_stream, 1, n)
        d  == AppendRead([w |-> acc, start |-> start, evs |-> <<>>,
                          lost |-> 0, dropped |-> 0], rx)
    IN  /\ ctx.s_pc = "read"
        /\ n >= 1
        /\ n <= Len(rx_stream)
        /\ n <= SHS_UART_BUF_SIZE
        /\ acc' = d.w
        /\ start' = d.start
        /\ acc_len' = acc_len + (Len(d.w) - Len(acc))
        /\ rx_stream' = SubSeq(rx_stream, n + 1, Len(rx_stream))
        /\ ctx' = [ctx EXCEPT !.s_pc = "scan"]
        /\ hist' = [hist EXCEPT !.reads = @ + 1,
                                !.rx_total = @ + n,
                                !.lost = @ + d.lost,
                                !.max_held = Max(@, Len(d.w)),
                                !.kept = IF d.start < start /\ events # <<>>
                                         THEN Len(acc) ELSE @]
        /\ last_task' = "ld2410_task"
        /\ UNCHANGED <<cfgVars, presVars, saveVars, shs_zb_ready, now, uart_tx,
                       light_power, zb_attr, events, zb_lock_log>>

\* shs01.c:474-514: one iteration of the while loop that does not break
ScanIterate ==
    LET h    == FindHeader(acc, 0)
        drop == DropLen(acc, h)
        p    == shs_process_sensor_state(Pres, shs_movement_cooldown_sec, now,
                                         acc[h + 8 + 1])
    IN  /\ ctx.s_pc = "scan"
        /\ ScanContinues(acc)
        /\ events' = Append(events, acc[h + 8 + 1])
        /\ PresenceBecomes(p)
        /\ start' = start + drop
        /\ acc_len' = acc_len - drop
        /\ acc' = SubSeq(acc, drop + 1, Len(acc))
        /\ hist' = [hist EXCEPT !.dropped = @ + drop,
                                !.last_hdr = hist.dropped + h]
        /\ last_task' = "ld2410_task"
        /\ UNCHANGED <<ctx, cfgVars, saveVars, shs_zb_ready, rx_stream, now, uart_tx,
                       light_power>>

\* shs01.c:474, 484-485, 519: the loop ends and the iteration's tick runs
ScanExit ==
    /\ ctx.s_pc = "scan"
    /\ ~ScanContinues(acc)
    /\ PresenceBecomes(LoopTick(Pres, shs_movement_cooldown_sec, now))
    /\ ctx' = [ctx EXCEPT !.s_pc = "read"]
    /\ last_task' = "ld2410_task"
    /\ UNCHANGED <<cfgVars, decVars, saveVars, shs_zb_ready, rx_stream, now, uart_tx,
                   light_power, events, hist>>

\* frames: a valid report, a valid report whose data holds the receive
\* header, a report that declares 65535 bytes of data, a report with a
\* wrong trailer
ScanFrames ==
    {RxFrame(RxPayload(1, <<>>)),
     RxFrame(RxPayload(0, SHS_LD2410_HDR_RX \o <<0>>)),
     SHS_LD2410_HDR_RX \o <<255, 255>> \o RxPayload(3, <<>>) \o SHS_LD2410_TAIL_RX,
     SHS_LD2410_HDR_RX \o Le16(3) \o RxPayload(2, <<>>) \o <<0, 0, 0, 0>>}

\* up to n frames one after the other
RECURSIVE FrameRuns(_)
FrameRuns(n) ==
    IF n = 0 THEN {<<>>}
    ELSE FrameRuns(n - 1)
         \cup {r \o f : r \in FrameRuns(n - 1), f \in ScanFrames}

\* header-free bytes ahead of the frames: none, or the first header byte
\* and a zero
ScanGarbage == {<<>>, <<244, 0>>}

ScanStreams ==
    {g \o r : g \in ScanGarbage, r \in FrameRuns(MaxScanFrames)}
    \cup {OverflowGarbage \o RxFrame(RxPayload(1, <<>>))}

\* lengths of the reads: part of a header, a minimum frame, a full read
\* buffer; or all that is on the line
ScanReadLens == {4, SHS_LD2410_MIN_FRAME_BYTES, SHS_UART_BUF_SIZE}

\* start before the first read: as InitStarts, and with room for exactly
\* one basic report before the end of the buffer
ScanStarts == InitStarts \cup {SHS_UART_ACC_BUF_SIZE - FrameTotal(3)}

InitScan ==
    \E st \in ScanStreams, s0 \in ScanStarts :
        InitWith(NvsEmpty, TRUE, U32Zero, s0, st, <<>>, <<>>)

NextScan ==
    \/ \E n \in ScanReadLens \cup {Len(rx_stream)} : ScanRead(n)
    \/ ScanIterate
    \/ ScanExit

SpecScan == InitScan /\ [][NextScan]_vars

\* the serial task has the highest priority of the tasks created
\* (shs01.c:843-848) and its loop body never blocks: once it has read, it
\* goes on until it is back at the read
InitScanLoop ==
    \E st \in ScanStreams : InitWith(NvsEmpty, TRUE, U32Zero, 0, st, <<>>, <<>>)

SpecScanLoop ==
    InitScanLoop /\ [][NextScan]_vars /\ WF_vars(ScanIterate \/ ScanExit)

(* ------------------------------------------------------------------ *)
(* Expiry of the cooldown timer: a cooldown loaded from NVS, reports    *)
(* with and without movement, time-outs, the clock up to and past the   *)
(* deadline, and writes of the cooldown (shs01.c:389-448, 519)          *)
(* ------------------------------------------------------------------ *)
ExpStateBytes == {0, 1}

InitExpiry ==
    \E n \in CooldownNvs \ {NvsEmpty}, t \in BootClocks :
        InitWith(n, TRUE, t, 0, <<>>, <<>>, <<>>)

NextExpiry ==
    \/ \E b \in ExpStateBytes : UartReadFrame(b)
    \/ UartTimeout
    \/ hist.steps < MaxExpSteps /\ Tick
    \/ \E v \in 0 .. MaxCooldown : hist.writes < MaxExpWrites /\ WriteCooldown(v)

SpecExpiry == InitExpiry /\ [][NextExpiry]_vars

(* ------------------------------------------------------------------ *)
(* Immediate saves: writes of the two cooldowns and of one debounced    *)
(* field, the worker and the clock (shs01.c:317-338, 764-772)           *)
(* ------------------------------------------------------------------ *)
\* attribute id and value of the writes
ImmRequests ==
    ({SHS_ATTR_MOVEMENT_COOLDOWN} \X (0 .. MaxCooldown))
    \cup {<<SHS_ATTR_OCC_CLEAR_COOLDOWN, 400>>, <<SHS_ATTR_MOVING_SENS_0_10, 3>>}

InitImmediate == InitWith(NvsEmpty, TRUE, U32Zero, 0, <<>>, <<>>, <<>>)

NextImmediate ==
    \/ \E r \in ImmRequests :
          /\ hist.writes < MaxImmWrites
          /\ AttrWrite(SHS_EP_LIGHT, SHS_CL_CFG_ID, r[1], ESP_ZB_ZCL_ATTR_TYPE_U16, r[2])
    \/ WorkerReceiveStep
    \/ WorkerFlushStep
    \/ AdvanceSave

SpecImmediate == InitImmediate /\ [][NextImmediate]_vars

(* ------------------------------------------------------------------ *)
\* the light switched on, the cooldown set to 0 .. MaxCooldown, every other
\* configuration attribute (and an unknown one) set to 1, and two writes
\* the handler ignores: wrong endpoint, wrong type
WriteRequests ==
    {<<SHS_EP_LIGHT, ESP_ZB_ZCL_CLUSTER_ID_ON_OFF, ESP_ZB_ZCL_ATTR_ON_OFF_ON_OFF_ID,
       ESP_ZB_ZCL_ATTR_TYPE_BOOL, 1>>}
    \cup {<<SHS_EP_LIGHT, SHS_CL_CFG_ID, SHS_ATTR_MOVEMENT_COOLDOWN,
             ESP_ZB_ZCL_ATTR_TYPE_U16, v>> : v \in 0 .. MaxCooldown}
    \cup {<<SHS_EP_LIGHT, SHS_CL_CFG_ID, a, ESP_ZB_ZCL_ATTR_TYPE_U16, 1>> :
            a \in SHS_ATTR_OCC_CLEAR_COOLDOWN .. SHS_ATTR_STATIC_MAX_GATE + 1}
    \cup {<<SHS_EP_OCC, SHS_CL_CFG_ID, SHS_ATTR_MOVEMENT_COOLDOWN,
            ESP_ZB_ZCL_ATTR_TYPE_U16, 1>>,
          <<SHS_EP_LIGHT, SHS_CL_CFG_ID, SHS_ATTR_MOVEMENT_COOLDOWN,
            ESP_ZB_ZCL_ATTR_TYPE_BOOL, 1>>}

\* reports with nobody there, and with a moving and static target
SysStateBytes == {0, 3}

InitSystem == InitWith(NvsEmpty, TRUE, U32Zero, 0, <<>>, <<>>, <<>>)

NextSystem ==
    \/ \E b \in SysStateBytes : UartReadFrame(b)
    \/ UartTimeout
    \/ hist.steps < MaxSysSteps /\ Tick
    \/ \E w \in WriteRequests :
          hist.writes < MaxSysWrites /\ AttrWrite(w[1], w[2], w[3], w[4], w[5])
    \/ \E sig \in Signals, ok \in BOOLEAN :
          hist.signals < MaxSignals /\ ZbSignal(sig, ok)
    \/ WorkerReceiveStep
    \/ WorkerFlushStep

SpecSystem == InitSystem /\ [][NextSystem]_vars


(* ================================================================== *)
(* Properties                                                          *)
(* ================================================================== *)

(* C1: after every fully processed event or cooldown tick the published *)
(* occupancy equals (published moving OR published static), for every   *)
(* cooldown setting.                                                    *)
C1_OccupancyIsMovingOrStatic ==
    shs_occupancy_state = (shs_moving_state \/ shs_static_state)

(* C2: with cooldown C > 0 unchanged since the last positive raw moving  *)
(* sample, published moving goes from true to false only when at least   *)
(* C seconds have passed since that sample.                              *)
C2_HeldAfterLastPositive ==
    [][ ( /\ shs_moving_state
          /\ ~shs_moving_state'
          /\ shs_movement_cooldown_sec > 0
          /\ shs_movement_cooldown_sec' = shs_movement_cooldown_sec
          /\ ~hist.cd_written )
        => hist.since_pos >= CooldownMs(shs_movement_cooldown_sec) ]_vars

\* the state byte of the frame sent in this run (frame offset 8)
SentStateByte == hist.frame[8 + 1]

\* everything sent has been read
AllRead == rx_stream = <<>> /\ hist.reads >= 1

(* C3: N header-free bytes followed by one valid frame, in any chunking, *)
(* yield exactly one StateEvent carrying the frame's state byte, and     *)
(* never more than N + frame_size bytes are retained.                    *)
C3_Resync ==
    /\ AllRead => events = <<SentStateByte>>
    /\ hist.max_held <= Len(hist.garbage) + Len(hist.frame)

(* C4: no byte is lost in the accumulator: every byte read is either     *)
(* still pending or was removed with a confirmed or skipped frame.       *)
C4_NoDataLoss ==
    /\ hist.lost = 0
    /\ hist.rx_total = hist.dropped + acc_len

(* C5: a correctly framed packet fed in one read into an empty decoder   *)
(* yields exactly one StateEvent with the frame's state byte and leaves  *)
(* the accumulator empty.                                                *)
C5_RoundTrip ==
    (hist.garbage = <<>> /\ hist.reads = 1 /\ rx_stream = <<>>)
        => (events = <<SentStateByte>> /\ acc_len = 0)

C5_Witness ==
    /\ hist.garbage = <<>> /\ hist.reads = 1 /\ rx_stream = <<>>
    /\ Len(hist.frame) = 18
    /\ events = <<3>>
    /\ acc_len = 0
    /\ start = 18

(* C6: a valid frame fed as two successive non-empty reads yields the    *)
(* same events as the frame fed in one read: exactly one event with the  *)
(* frame's state byte.                                                   *)
C6_PartialDelivery ==
    (hist.garbage = <<>> /\ hist.reads = 2 /\ rx_stream = <<>>)
        => events = <<SentStateByte>>

\* no request for field f waits in the queue
NoneQueued(f) == \A k \in 1 .. Len(shs_save_q) :
                    shs_save_q[k].type = "SHS_SAVE_IMMEDIATE_U16"
                    \/ DebKey(shs_save_q[k].type) # f

\* the burst of writes to f is over and the worker has nothing left to do for f
Settled(f) ==
    /\ hist.last_req[f] # NoValue
    /\ U32AtLeast(U32Sub(now, hist.last_req_ms[f]), SHS_NVS_DEBOUNCE_MS)
    /\ NoneQueued(f)
    /\ ~pend[f]

(* C7: writes to one debounced field that all come less than the quiet  *)
(* period apart lead to exactly one durable write of the field, and it  *)
(* carries the value of the last write.  Stated for the runs in which   *)
(* the queue took the last request and the store opened: at no time     *)
(* have two durable writes happened, and once the worker is done        *)
(* exactly one has, with the last value.                                *)
C7_DebounceCoalescing ==
    \A f \in DebFields :
        (~hist.last_dropped[f] /\ ~hist.flush_failed[f])
            => /\ hist.saves[f] <= 1
               /\ Settled(f) => (hist.saves[f] = 1 /\ nvs[f] = hist.last_req[f])

BridgeCallbacks == {"attribute_handler", "signal_handler"}

(* C9: no call that acquires the bridge-wide lock is ever made from the  *)
(* attribute write handler or from the stack signal handler.             *)
C9_NoLockFromBridgeCallbacks == zb_lock_log \cap BridgeCallbacks = {}

PresenceChanged ==
    \/ shs_moving_state' # shs_moving_state
    \/ shs_static_state' # shs_static_state
    \/ shs_occupancy_state' # shs_occupancy_state

LastSampleChanged == shs_last_moving_sample' # shs_last_moving_sample

CooldownTimerChanged ==
    \/ shs_mv_cooldown_active' # shs_mv_cooldown_active
    \/ shs_mv_cooldown_deadline_ms' # shs_mv_cooldown_deadline_ms

ConfigChanged == cfgVars' # cfgVars

(* C10: the presence signals and the cooldown timer state (active flag,  *)
(* deadline, last raw sample) are written only by the serial task, and   *)
(* the configuration fields only by the zigbee task's write handler.     *)
C10_SingleWriter ==
    [][ /\ (PresenceChanged \/ LastSampleChanged \/ CooldownTimerChanged)
            => last_task' = "ld2410_task"
        /\ ConfigChanged => last_task' = "zigbee_task" ]_vars

(* C10, amended: the presence signals and the last raw sample are        *)
(* written only by the serial task; the cooldown active flag and         *)
(* deadline are written by the serial task and by the zigbee task's      *)
(* write handler; the configuration fields only by the write handler.    *)
C10_Writers ==
    [][ /\ (PresenceChanged \/ LastSampleChanged) => last_task' = "ld2410_task"
        /\ CooldownTimerChanged => last_task' \in {"ld2410_task", "zigbee_task"}
        /\ ConfigChanged => last_task' = "zigbee_task" ]_vars

C10_Witness ==
    /\ hist.cooldown_writer = "zigbee_task"
    /\ last_task = "zigbee_task"
    /\ shs_mv_cooldown_active
    /\ shs_moving_state
    /\ shs_movement_cooldown_sec = 1

\* a step of the serial task that processed at least one report
SampleProcessed == last_task' = "ld2410_task" /\ hist'.sampled

(* C11: once the movement cooldown is 0 (in particular after a write     *)
(* took it from nonzero to 0 while moving was held and the timer was     *)
(* active), every report the serial task processes leaves the published  *)
(* moving state equal to the raw moving bit of that report, with no      *)
(* hold-open.                                                            *)
C11_DirectTrackingWhenDisabled ==
    [][ (SampleProcessed /\ shs_movement_cooldown_sec = 0)
            => shs_moving_state' = shs_last_moving_sample' ]_vars

C11_Witness ==
    /\ hist.disabled = "sampled"
    /\ last_task = "ld2410_task"
    /\ shs_movement_cooldown_sec = 0
    /\ ~shs_last_moving_sample
    /\ ~shs_moving_state

\* no cooldown write is being handled and the serial task waits for bytes
Quiescent == ctx.h_pc = "idle" /\ ctx.s_pc = "read"

(* C12: under any interleaving of the cooldown write handler with the    *)
(* serial task, cooldown seconds = 0 implies that the timer's active     *)
(* flag is false.  Stated for the states in which the handler has        *)
(* returned and the serial task has finished its iteration, which is     *)
(* the least the claim asks for.                                         *)
C12_InactiveAtCooldownZero ==
    (Quiescent /\ shs_movement_cooldown_sec = 0) => ~shs_mv_cooldown_active

\* a cooldown write that takes the cooldown from 0 to a positive value
\* while moving is published and no timer is active
ArmingWrite ==
    /\ last_task' = "zigbee_task"
    /\ hist'.writes = hist.writes + 1
    /\ shs_movement_cooldown_sec = 0
    /\ shs_movement_cooldown_sec' > 0
    /\ shs_moving_state
    /\ ~shs_mv_cooldown_active

\* the serial task has just processed a report without the moving bit
NegativeReport ==
    /\ last_task = "ld2410_task"
    /\ hist.sampled
    /\ ~shs_last_moving_sample

(* C13: a write that changes the cooldown from 0 to C > 0 while moving   *)
(* is published and no timer is active arms the timer in the same        *)
(* handler call, with deadline = now + C seconds; and if the sensor      *)
(* keeps sending reports without the moving bit then, unless a positive  *)
(* report or another cooldown write comes first, the published moving    *)
(* state eventually becomes false.                                       *)
C13_ArmingOnZeroToNonzero ==
    /\ [][ ArmingWrite =>
             /\ shs_mv_cooldown_active'
             /\ shs_mv_cooldown_deadline_ms'
                  = U32Add(now, shs_movement_cooldown_sec' * 1000) ]_vars
    /\ []<>NegativeReport
          => ((hist.armed = "yes") ~> (~shs_moving_state \/ hist.armed = "void"))

C13_Witness ==
    /\ hist.armed = "cleared"
    /\ ~shs_moving_state
    /\ ~shs_mv_cooldown_active
    /\ shs_movement_cooldown_sec > 0

\* v brought into lo .. hi
Saturate(v, lo, hi) == IF v < lo THEN lo ELSE IF v > hi THEN hi ELSE v

\* the last write handled was one to attribute attr of the configuration
\* cluster on endpoint 1, typed U16
LastWriteTo(attr) ==
    /\ hist.last_write # <<>>
    /\ hist.last_write[1] = SHS_EP_LIGHT
    /\ hist.last_write[2] = SHS_CL_CFG_ID
    /\ hist.last_write[3] = attr
    /\ hist.last_write[4] = ESP_ZB_ZCL_ATTR_TYPE_U16

LastWriteValue == hist.last_write[5]

\* the state app_main leaves: defaults when the namespace did not open,
\* and otherwise each stored value brought into its range
LoadedClamped ==
    \/ /\ shs_movement_cooldown_sec = 0
       /\ shs_occupancy_clear_sec = 0
       /\ shs_moving_sens_0_100 = 60
       /\ shs_static_sens_0_100 = 50
       /\ shs_moving_max_gate = 8
       /\ shs_static_max_gate = 8
    \/ /\ nvs["mv_cd"] # NoValue
            => shs_movement_cooldown_sec = Saturate(nvs["mv_cd"], 0, 300)
       /\ nvs["occ_cd"] # NoValue => shs_occupancy_clear_sec = nvs["occ_cd"]
       /\ nvs["mv_sens"] # NoValue
            => shs_moving_sens_0_100 = Saturate(nvs["mv_sens"], 0, 100)
       /\ nvs["st_sens"] # NoValue
            => shs_static_sens_0_100 = Saturate(nvs["st_sens"], 0, 100)
       /\ nvs["mv_gate"] # NoValue
            => shs_moving_max_gate = Saturate(nvs["mv_gate"], 0, 8)
       /\ nvs["st_gate"] # NoValue
            => shs_static_max_gate = Saturate(nvs["st_gate"], 2, 8)

(* C14: every configuration write of v stores the saturating clamp of v  *)
(* (cooldown 0..300, occupancy-clear unclamped, sensitivity proxies      *)
(* 0..10, moving gate 0..8, static gate 2..8), the load from durable     *)
(* storage clamps the same way, and every field is within its range in   *)
(* every reachable state.                                                *)
C14_Clamping ==
    /\ shs_movement_cooldown_sec \in 0 .. 300
    /\ shs_occupancy_clear_sec \in 0 .. 65535
    /\ shs_moving_sens_0_100 \in 0 .. 100
    /\ shs_static_sens_0_100 \in 0 .. 100
    /\ shs_sens_mv_0_10 \in 0 .. 10
    /\ shs_sens_st_0_10 \in 0 .. 10
    /\ shs_moving_max_gate \in 0 .. 8
    /\ shs_static_max_gate \in 2 .. 8
    /\ last_task = "app_main" => LoadedClamped
    /\ LastWriteTo(SHS_ATTR_MOVEMENT_COOLDOWN)
         => shs_movement_cooldown_sec = Saturate(LastWriteValue, 0, 300)
    /\ LastWriteTo(SHS_ATTR_OCC_CLEAR_COOLDOWN)
         => shs_occupancy_clear_sec = LastWriteValue
    /\ LastWriteTo(SHS_ATTR_MOVING_SENS_0_10)
         => shs_sens_mv_0_10 = Saturate(LastWriteValue, 0, 10)
    /\ LastWriteTo(SHS_ATTR_STATIC_SENS_0_10)
         => shs_sens_st_0_10 = Saturate(LastWriteValue, 0, 10)
    /\ LastWriteTo(SHS_ATTR_MOVING_MAX_GATE)
         => shs_moving_max_gate = Saturate(LastWriteValue, 0, 8)
    /\ LastWriteTo(SHS_ATTR_STATIC_MAX_GATE)
         => shs_static_max_gate = Saturate(LastWriteValue, 2, 8)

\* a static gate of 1 was written and 2 stored, after a load that had
\* clamped a stored cooldown of 400
C14_Witness ==
    /\ LastWriteTo(SHS_ATTR_STATIC_MAX_GATE)
    /\ LastWriteValue = 1
    /\ shs_static_max_gate = 2
    /\ nvs["mv_cd"] = 400
    /\ shs_movement_cooldown_sec = 300

\* primary / 10 rounded half up, capped at 10
RoundHalfUp10(primary) ==
    LET r == IF primary % 10 >= 5 THEN primary \div 10 + 1 ELSE primary \div 10
    IN  IF r > 10 THEN 10 ELSE r

(* C15: each 0..10 sensitivity proxy equals its 0..100 primary divided   *)
(* by 10, rounded half up and capped at 10, in every reachable state     *)
(* (so after every load); and a write of proxy value q, clamped to       *)
(* 0..10, leaves primary = 10 * q and proxy = q.                         *)
C15_ProxyConsistency ==
    /\ shs_sens_mv_0_10 = RoundHalfUp10(shs_moving_sens_0_100)
    /\ shs_sens_st_0_10 = RoundHalfUp10(shs_static_sens_0_100)
    /\ LastWriteTo(SHS_ATTR_MOVING_SENS_0_10)
         => /\ shs_sens_mv_0_10 = Saturate(LastWriteValue, 0, 10)
            /\ shs_moving_sens_0_100 = 10 * Saturate(LastWriteValue, 0, 10)
    /\ LastWriteTo(SHS_ATTR_STATIC_SENS_0_10)
         => /\ shs_sens_st_0_10 = Saturate(LastWriteValue, 0, 10)
            /\ shs_static_sens_0_100 = 10 * Saturate(LastWriteValue, 0, 10)

\* a static sensitivity of 45 was loaded, giving proxy 5, and a moving
\* proxy of 11 written, giving 10 and 100
C15_Witness ==
    /\ nvs["st_sens"] = 45
    /\ shs_static_sens_0_100 = 45
    /\ shs_sens_st_0_10 = 5
    /\ LastWriteTo(SHS_ATTR_MOVING_SENS_0_10)
    /\ LastWriteValue = 11
    /\ shs_sens_mv_0_10 = 10
    /\ shs_moving_sens_0_100 = 100

\* an attribute write was handled in this step
WriteHandled == hist'.writes = hist.writes + 1

\* the write handled in this step: its fields
WrittenEp == hist'.last_write[1]
WrittenCluster == hist'.last_write[2]
WrittenAttr == hist'.last_write[3]
WrittenType == hist'.last_write[4]

\* it was a write of a known attribute of the configuration cluster on
\* endpoint 1, typed U16
WriteAccepted ==
    /\ WrittenEp = SHS_EP_LIGHT
    /\ WrittenCluster = SHS_CL_CFG_ID
    /\ WrittenType = ESP_ZB_ZCL_ATTR_TYPE_U16
    /\ WrittenAttr \in SHS_ATTR_MOVEMENT_COOLDOWN .. SHS_ATTR_STATIC_MAX_GATE

\* the command words of the frames this step wrote to the UART
SentCommands ==
    LET sent == SubSeq(hist'.tx_log, Len(hist.tx_log) + 1, Len(hist'.tx_log))
    IN  [k \in 1 .. Len(sent) |-> sent[k][7] + 256 * sent[k][8]]

\* m asks for the field of attribute attr to be saved
RequestFor(m, attr) ==
    CASE attr \in {SHS_ATTR_MOVEMENT_COOLDOWN, SHS_ATTR_OCC_CLEAR_COOLDOWN} ->
            m.type = "SHS_SAVE_IMMEDIATE_U16" /\ m.u16 \div 256 = attr
      [] attr = SHS_ATTR_MOVING_SENS_0_10 ->
            m.type = "SHS_SAVE_DEBOUNCE_SENS_MOVE" /\ m.u16 = shs_moving_sens_0_100'
      [] attr = SHS_ATTR_STATIC_SENS_0_10 ->
            m.type = "SHS_SAVE_DEBOUNCE_SENS_STATIC" /\ m.u16 = shs_static_sens_0_100'
      [] attr = SHS_ATTR_MOVING_MAX_GATE ->
            m.type = "SHS_SAVE_DEBOUNCE_GATE_MOVE" /\ m.u16 = shs_moving_max_gate'
      [] attr = SHS_ATTR_STATIC_MAX_GATE ->
            m.type = "SHS_SAVE_DEBOUNCE_GATE_STATIC" /\ m.u16 = shs_static_max_gate'

\* this step put one request for the written field at the end of the queue
EnqueuedOne ==
    /\ Len(shs_save_q') = Len(shs_save_q) + 1
    /\ SubSeq(shs_save_q', 1, Len(shs_save_q)) = shs_save_q
    /\ RequestFor(shs_save_q'[Len(shs_save_q')], WrittenAttr)

\* what an accepted write sends, and that any other write does nothing
CommandsAndRejects ==
    /\ WriteAccepted =>
          SentCommands =
            CASE WrittenAttr \in {SHS_ATTR_MOVING_SENS_0_10, SHS_ATTR_STATIC_SENS_0_10} ->
                    <<SHS_LD2410_CMD_BEGIN_CONFIG, SHS_LD2410_CMD_SET_SENSITIVITY,
                      SHS_LD2410_CMD_END_CONFIG>>
              [] WrittenAttr \in {SHS_ATTR_OCC_CLEAR_COOLDOWN, SHS_ATTR_MOVING_MAX_GATE,
                                  SHS_ATTR_STATIC_MAX_GATE} ->
                    <<SHS_LD2410_CMD_BEGIN_CONFIG, SHS_LD2410_CMD_SET_PARAMS,
                      SHS_LD2410_CMD_END_CONFIG>>
              [] OTHER -> <<>>
    /\ ~WriteAccepted =>
          /\ cfgVars' = cfgVars
          /\ shs_save_q' = shs_save_q
          /\ SentCommands = <<>>

(* C16: every accepted configuration write (endpoint 1, configuration    *)
(* cluster, U16) enqueues one persistence request for the written        *)
(* field; a sensitivity write also sends the set-sensitivity sequence,   *)
(* a gate or occupancy-clear write the set-parameters sequence, a        *)
(* cooldown write nothing; a write with another endpoint, cluster,       *)
(* attribute id or type changes no configuration field, enqueues         *)
(* nothing and sends nothing.                                            *)
C16_SideEffects ==
    [][ WriteHandled =>
          /\ WriteAccepted => EnqueuedOne
          /\ CommandsAndRejects ]_vars

(* C16, amended: as above, except that the request is enqueued only      *)
(* when the save queue holds fewer than 8 requests; when it is full the  *)
(* queue is left as it is and everything else is done all the same.      *)
C16_SideEffectsUnlessFull ==
    [][ WriteHandled =>
          /\ WriteAccepted =>
                IF Len(shs_save_q) < SHS_SAVE_Q_LEN
                THEN EnqueuedOne
                ELSE shs_save_q' = shs_save_q
          /\ CommandsAndRejects ]_vars

\* a moving sensitivity of 5 was written with the queue full of cooldown
\* requests: it is stored and nothing was enqueued
C16_Witness ==
    /\ hist.writes = SHS_SAVE_Q_LEN + 1
    /\ Len(shs_save_q) = SHS_SAVE_Q_LEN
    /\ \A k \in 1 .. Len(shs_save_q) : shs_save_q[k].type = "SHS_SAVE_IMMEDIATE_U16"
    /\ LastWriteTo(SHS_ATTR_MOVING_SENS_0_10)
    /\ LastWriteValue = 5
    /\ shs_moving_sens_0_100 = 50

\* the stored value of a published signal
Stored(sig) ==
    CASE sig = "moving" -> shs_moving_state
      [] sig = "static" -> shs_static_state
      [] sig = "occupancy" -> shs_occupancy_state

\* no two neighbours of seq are equal
Alternating(seq) == \A k \in 1 .. Len(seq) - 1 : seq[k] # seq[k + 1]

(* C17: the serial task (report processing and cooldown ticks) calls     *)
(* the setter of a signal only with a value that differs from the        *)
(* stored one, which then becomes the stored one; so two consecutive     *)
(* publications of the same signal by the serial task never carry the    *)
(* same value.                                                           *)
C17_PublishOnlyOnChange ==
    [][ last_task' = "ld2410_task" =>
          \A sig \in PubSignals :
             LET vals == PubValues(hist'.step_pubs, sig)
             IN  /\ Alternating(hist.last_pub[sig] \o vals)
                 /\ vals # <<>> => /\ vals[1] # Stored(sig)
                                   /\ vals[Len(vals)] = Stored(sig)' ]_vars

\* a read timed out, the cooldown tick cleared moving and published it,
\* after moving and static had both been published as true
C17_Witness ==
    /\ last_task = "ld2410_task"
    /\ ~hist.sampled
    /\ hist.step_pubs = << <<"moving", FALSE>> >>
    /\ hist.last_pub["static"] = <<TRUE>>
    /\ shs_movement_cooldown_sec > 0
    /\ ~shs_moving_state
    /\ shs_zb_ready
    /\ ~zb_attr.moving

\* the command word of a frame on the link to the sensor (shs01.c:165-181)
CmdWord(f) == f[7] + 256 * f[8]

\* f is a complete command frame: header, length, payload, tail
CommandFrame(f) ==
    /\ Len(f) >= 4 + 2 + 2 + 4
    /\ SubSeq(f, 1, 4) = SHS_LD2410_HDR_TX
    /\ f[5] + 256 * f[6] = Len(f) - 10
    /\ SubSeq(f, Len(f) - 3, Len(f)) = SHS_LD2410_TAIL_TX

SetCommands == {SHS_LD2410_CMD_SET_PARAMS, SHS_LD2410_CMD_SET_SENSITIVITY}

Bracketed(log) ==
    /\ Len(log) % 3 = 0
    /\ \A i \in 1 .. Len(log) :
          /\ CommandFrame(log[i])
          /\ i % 3 = 1 => CmdWord(log[i]) = SHS_LD2410_CMD_BEGIN_CONFIG
          /\ i % 3 = 2 => CmdWord(log[i]) \in SetCommands
          /\ i % 3 = 0 => CmdWord(log[i]) = SHS_LD2410_CMD_END_CONFIG

(* C18: the frames written to the sensor, from the start of the program
   on, are a concatenation of complete triples: an enter-configuration
   frame, one set-parameters or set-sensitivity frame, an end-configuration
   frame; so every set frame has an enter frame just before it and an end
   frame just after it. *)
C18_CommandBracketing == Bracketed(hist.tx_log)

\* after the two triples of the start a write of a sensitivity has sent a third
C18_Witness ==
    /\ Len(hist.tx_log) = 9
    /\ CmdWord(hist.tx_log[8]) = SHS_LD2410_CMD_SET_SENSITIVITY
    /\ hist.last_write # <<>>
    /\ hist.last_write[3] = SHS_ATTR_MOVING_SENS_0_10

\* the worker's flush pass (shs01.c:788-804)
FlushStep == worker_pc = "flush" /\ worker_pc' = "recv"

\* the worker takes a request for the immediate save of key k from the queue
ImmediateTaken(k) ==
    /\ worker_pc = "recv"
    /\ worker_pc' = "flush"
    /\ shs_save_q # <<>>
    /\ Head(shs_save_q).type = "SHS_SAVE_IMMEDIATE_U16"
    /\ Head(shs_save_q).u16 \div 256 =
          (IF k = "mv_cd" THEN SHS_ATTR_MOVEMENT_COOLDOWN ELSE SHS_ATTR_OCC_CLEAR_COOLDOWN)

\* the worker takes a request for the debounced field f from the queue
DebouncedTaken(f) ==
    /\ worker_pc = "recv"
    /\ worker_pc' = "flush"
    /\ shs_save_q # <<>>
    /\ Head(shs_save_q).type # "SHS_SAVE_IMMEDIATE_U16"
    /\ DebKey(Head(shs_save_q).type) = f

\* the immediate save of the movement cooldown failed: the store still has no
\* value for it
ImmediateFailed == ImmediateTaken("mv_cd") /\ nvs'["mv_cd"] = NoValue

(* C19: a failed save is not tried again.  In a flush pass every due field
   stops being pending whether its save succeeded or not, and a failed save
   leaves the store as it was; a failed immediate save consumes its request.
   A field is written to the store only while it is pending or when a
   request for it is taken from the queue, and it becomes pending only when
   a request for it is taken from the queue.  The worker goes on to its next
   stage, and no configuration variable changes in a worker step. *)
C19_WriteFailureSwallowed ==
    [][ /\ FlushStep =>
              \A f \in Due(now) :
                  /\ ~pend'[f]
                  /\ hist'.flush_failed[f] =>
                        (nvs'[f] = nvs[f] /\ hist'.saves[f] = hist.saves[f])
        /\ ImmediateFailed =>
              (shs_save_q' = Tail(shs_save_q) /\ nvs' = nvs)
        /\ \A f \in DebFields :
              /\ (hist'.saves[f] # hist.saves[f] \/ nvs'[f] # nvs[f]) =>
                    (FlushStep /\ pend[f])
              /\ (pend'[f] /\ ~pend[f]) => DebouncedTaken(f)
        /\ \A k \in {"mv_cd", "occ_cd"} : nvs'[k] # nvs[k] => ImmediateTaken(k)
        /\ last_task' = "save_worker" =>
              (worker_pc' # worker_pc /\ UNCHANGED cfgVars) ]_vars

\* the save of the moving sensitivity failed and the field is no longer
\* pending; the worker has since saved the static gate
C19_Witness ==
    /\ hist.flush_failed["mv_sens"]
    /\ ~pend["mv_sens"]
    /\ nvs["mv_sens"] = NoValue
    /\ hist.saves["mv_sens"] = 0
    /\ shs_moving_sens_0_100 = hist.last_req["mv_sens"]
    /\ hist.saves["st_gate"] = 1
    /\ nvs["mv_cd"] = NoValue
    /\ hist.writes > hist.deb_writes
    /\ shs_save_q = <<>>

\* the save queue holds SHS_SAVE_Q_LEN messages
QueueFull == Len(shs_save_q) = SHS_SAVE_Q_LEN

\* the write handled in this step left the clamped value in its variable
ValueApplied ==
    LET v == hist'.last_write[5]
    IN  CASE WrittenAttr = SHS_ATTR_MOVEMENT_COOLDOWN ->
                shs_movement_cooldown_sec' = Saturate(v, 0, 300)
          [] WrittenAttr = SHS_ATTR_OCC_CLEAR_COOLDOWN ->
                shs_occupancy_clear_sec' = v
          [] WrittenAttr = SHS_ATTR_MOVING_SENS_0_10 ->
                /\ shs_sens_mv_0_10' = Saturate(v, 0, 10)
                /\ shs_moving_sens_0_100' = 10 * Saturate(v, 0, 10)
          [] WrittenAttr = SHS_ATTR_STATIC_SENS_0_10 ->
                /\ shs_sens_st_0_10' = Saturate(v, 0, 10)
                /\ shs_static_sens_0_100' = 10 * Saturate(v, 0, 10)
          [] WrittenAttr = SHS_ATTR_MOVING_MAX_GATE ->
                shs_moving_max_gate' = Saturate(v, 0, 8)
          [] WrittenAttr = SHS_ATTR_STATIC_MAX_GATE ->
                shs_static_max_gate' = Saturate(v, 2, 8)

\* the last request for debounced field f was dropped and the worker holds
\* nothing else for f: no queued message and no pending value
OnlyDropped(f) ==
    /\ hist.last_dropped[f]
    /\ ~pend[f]
    /\ \A k \in 1 .. Len(shs_save_q) :
          shs_save_q[k].type = "SHS_SAVE_IMMEDIATE_U16" \/ DebKey(shs_save_q[k].type) # f

(* C20: an accepted configuration write handled while the save queue holds
   its 8 messages completes and returns ESP_OK, leaves the queue as it was,
   stores the clamped value in memory and sends the same commands as any
   other write; the queue never holds more than 8 messages; and once only
   the dropped request is outstanding for a debounced field, nothing is
   written to the durable store for that field. *)
C20_QueueFullDrops ==
    /\ [](Len(shs_save_q) <= SHS_SAVE_Q_LEN)
    /\ [][ /\ (WriteHandled /\ WriteAccepted /\ QueueFull) =>
                /\ shs_save_q' = shs_save_q
                /\ hist'.ret = "ESP_OK"
                /\ ValueApplied
                /\ CommandsAndRejects
           /\ \A f \in DebFields :
                 OnlyDropped(f) =>
                    (nvs'[f] = nvs[f] /\ hist'.saves[f] = hist.saves[f]) ]_vars

\* a moving sensitivity of 7 was written with the queue full and is in
\* memory; the worker has since emptied the queue and saved the cooldown,
\* and the store has no moving sensitivity
C20_Witness ==
    /\ hist.last_dropped["mv_sens"]
    /\ hist.last_req["mv_sens"] = 70
    /\ shs_moving_sens_0_100 = 70
    /\ hist.ret = "ESP_OK"
    /\ shs_save_q = <<>>
    /\ ~pend["mv_sens"]
    /\ nvs["mv_cd"] = 0
    /\ nvs["mv_sens"] = NoValue
    /\ hist.steps > 0

\* the variable an immediate save of key k reads
InMemory(k) ==
    IF k = "mv_cd" THEN shs_movement_cooldown_sec ELSE shs_occupancy_clear_sec

(* C21: when the worker takes an immediate request for the movement
   cooldown or the occupancy-clear time from the queue, it calls the save
   of that field once in the same step, whatever the clock says; the value
   handed to the store is the one the variable holds at that moment (the
   store keeps it when it opens), no other key of the store changes, and no
   debounced field's pending flag, value or time stamp changes. *)
C21_ImmediatePolicy ==
    [][ \A k \in {"mv_cd", "occ_cd"} :
          ImmediateTaken(k) =>
             /\ Len(hist'.imm_save) = 2
             /\ hist'.imm_save[1] = k
             /\ nvs' = IF hist'.imm_save[2]
                       THEN [nvs EXCEPT ![k] = InMemory(k)]
                       ELSE nvs
             /\ shs_save_q' = Tail(shs_save_q)
             /\ pend' = pend
             /\ save_val' = save_val
             /\ last_upd' = last_upd ]_vars

\* two requests were queued before the clock moved; the worker has taken the
\* request for the occupancy-clear time and stored 400, and the second is
\* still queued, while a moving sensitivity waits for its quiet period
C21_Witness ==
    /\ hist.imm_save = <<"occ_cd", TRUE>>
    /\ nvs["occ_cd"] = 400
    /\ shs_occupancy_clear_sec = 400
    /\ nvs["mv_cd"] = NoValue
    /\ Len(shs_save_q) = 1
    /\ shs_save_q[1].type = "SHS_SAVE_IMMEDIATE_U16"
    /\ pend["mv_sens"]
    /\ hist.steps = 0
    /\ worker_pc = "flush"

\* the worker's value, time stamp and pending flag of debounced field f
Triple(f) == <<save_val[f], last_upd[f], pend[f]>>

(* C22: when the worker takes a request for debounced field f from the
   queue, f gets the requested value, the current time and the pending
   flag, and the value, time stamp and pending flag of every other
   debounced field stay as they were; a flush pass changes no value and no
   time stamp, clears the pending flag of the fields that are due and of no
   other field, and writes no other field to the store. *)
C22_IndependentDebouncing ==
    [][ /\ \A f \in DebFields :
              DebouncedTaken(f) =>
                 /\ Triple(f)' = <<Head(shs_save_q).u16 % 256, now, TRUE>>
                 /\ \A g \in DebFields \ {f} : Triple(g)' = Triple(g)
        /\ FlushStep =>
              /\ save_val' = save_val
              /\ last_upd' = last_upd
              /\ \A f \in DebFields :
                    /\ pend'[f] = (pend[f] /\ f \notin Due(now))
                    /\ f \notin Due(now) => nvs'[f] = nvs[f] ]_vars

\* a flush pass has saved the moving sensitivity while the static gate,
\* requested later, is still pending
C22_Witness ==
    /\ last_task = "save_worker"
    /\ worker_pc = "recv"
    /\ hist.saves["mv_sens"] = 1
    /\ ~pend["mv_sens"]
    /\ nvs["mv_sens"] = save_val["mv_sens"]
    /\ pend["st_gate"]
    /\ save_val["st_gate"] = 5
    /\ nvs["st_gate"] = NoValue

\* a step of the serial task: reports processed, if any, and the tick that
\* ends the iteration
SerialStep == last_task' = "ld2410_task"

\* the cooldown is enabled and its timer runs
TimerRunning == shs_movement_cooldown_sec > 0 /\ shs_mv_cooldown_active

\* the deadline has come: (int32_t)(now - deadline) >= 0
DeadlineReached == shs_time_reached(now, shs_mv_cooldown_deadline_ms)

(* C23: while the cooldown is enabled and the timer runs, the published
   moving goes from true to false only in a step of the serial task at
   which the deadline has come and the last raw sample is false, and that
   step stops the timer; a serial step at which the deadline has come and
   the last raw sample is true leaves moving as it was and sets the
   deadline to now plus the cooldown; a serial step before the deadline
   changes neither moving nor the timer. *)
C23_TimerExpiryRule ==
    [][ TimerRunning =>
          /\ (shs_moving_state /\ ~shs_moving_state') =>
                /\ SerialStep
                /\ DeadlineReached
                /\ ~shs_last_moving_sample'
                /\ ~shs_mv_cooldown_active'
          /\ (SerialStep /\ DeadlineReached /\ ~shs_last_moving_sample') =>
                (~shs_moving_state' /\ ~shs_mv_cooldown_active')
          /\ (SerialStep /\ DeadlineReached /\ shs_last_moving_sample') =>
                /\ shs_moving_state' = shs_moving_state
                /\ shs_mv_cooldown_active'
                /\ shs_mv_cooldown_deadline_ms' =
                      U32Add(now, shs_movement_cooldown_sec * 1000)
          /\ (SerialStep /\ ~DeadlineReached) =>
                /\ shs_moving_state' = shs_moving_state
                /\ shs_mv_cooldown_active'
                /\ shs_mv_cooldown_deadline_ms' = shs_mv_cooldown_deadline_ms ]_vars

\* the deadline came while the sensor reported movement: moving is held and
\* the timer runs for another cooldown from now
C23_Witness ==
    /\ last_task = "ld2410_task"
    /\ hist.expiry = "extended"
    /\ shs_movement_cooldown_sec > 0
    /\ shs_moving_state
    /\ shs_last_moving_sample
    /\ shs_mv_cooldown_active
    /\ shs_mv_cooldown_deadline_ms = U32Add(now, shs_movement_cooldown_sec * 1000)

\* an iteration of the serial task whose read timed out or brought no report
SilentStep == SerialStep /\ ~hist'.sampled

(* C24: with the cooldown enabled, the timer running and the last raw
   sample false, an iteration of the serial task that gets no report at or
   after the deadline clears moving and stops the timer; and as the read is
   time-bounded and the loop keeps running, a held moving is eventually
   cleared and the timer stopped without any further byte from the sensor,
   unless a report with movement arrives or the cooldown is set to 0
   first. *)
C24_ExpiryWithoutTraffic ==
    /\ [][ (SilentStep /\ TimerRunning /\ ~shs_last_moving_sample /\ DeadlineReached)
             => (~shs_moving_state' /\ ~shs_mv_cooldown_active') ]_vars
    /\ (TimerRunning /\ ~shs_last_moving_sample /\ shs_moving_state)
          ~> \/ ~shs_moving_state /\ ~shs_mv_cooldown_active
             \/ shs_last_moving_sample
             \/ shs_movement_cooldown_sec = 0

\* a read timed out at the deadline and the iteration's tick ended the hold
C24_Witness ==
    /\ last_task = "ld2410_task"
    /\ ~hist.sampled
    /\ hist.expiry = "ended"
    /\ hist.step_pubs = << <<"moving", FALSE>> >>
    /\ ~shs_moving_state
    /\ ~shs_mv_cooldown_active
    /\ ~shs_last_moving_sample
    /\ hist.steps * StepMs >= shs_movement_cooldown_sec * 1000

\* the receive header stands at offset h of the accumulated bytes
HeaderAt(h) ==
    /\ h + 4 <= Len(acc)
    /\ SubSeq(acc, h + 1, h + 4) = SHS_LD2410_HDR_RX

\* the offset of the first receive header, or NoValue
FirstHeader ==
    IF \E h \in 0 .. Len(acc) : HeaderAt(h)
    THEN CHOOSE h \in 0 .. Len(acc) : HeaderAt(h) /\ \A g \in 0 .. h - 1 : ~HeaderAt(g)
    ELSE NoValue

\* the total length the frame at h declares
DeclaredTotal(h) == 4 + 2 + (acc[h + 5] + 256 * acc[h + 6]) + 4

\* the frame at h cannot be confirmed: fewer than 10 bytes from h, or it
\* declares more than is there, or the trailer is not where it should be
Unconfirmed(h) ==
    \/ Len(acc) - h < 10
    \/ h + DeclaredTotal(h) > Len(acc)
    \/ SubSeq(acc, h + DeclaredTotal(h) - 3, h + DeclaredTotal(h)) # SHS_LD2410_TAIL_RX

\* the scan loop stands before a header with at least the minimum frame
\* length behind it, which it cannot confirm
HeuristicCase ==
    /\ ctx.s_pc = "scan"
    /\ FirstHeader # NoValue
    /\ Len(acc) - FirstHeader >= SHS_LD2410_MIN_FRAME_BYTES
    /\ Unconfirmed(FirstHeader)

(* C25: when the scan loop finds the first receive header at offset h with
   at least 9 bytes from h accumulated and cannot confirm the frame (fewer
   than 10 bytes from h, a declared total beyond the accumulated bytes, or
   a wrong trailer), that iteration hands the byte at h + 8 to the state
   processing as one event, removes exactly h + 9 bytes and no more, and
   goes on scanning what is left from its beginning. *)
C25_HeuristicSkip ==
    [][ HeuristicCase =>
          /\ events' = Append(events, acc[FirstHeader + 8 + 1])
          /\ acc' = SubSeq(acc, FirstHeader + SHS_LD2410_MIN_FRAME_BYTES + 1, Len(acc))
          /\ start' = start + FirstHeader + SHS_LD2410_MIN_FRAME_BYTES
          /\ acc_len' = acc_len - (FirstHeader + SHS_LD2410_MIN_FRAME_BYTES)
          /\ ctx'.s_pc = "scan" ]_vars

\* two header-free bytes and a report that declares 65535 bytes of data:
\* one event with its state byte, 2 + 9 bytes removed, the rest of the
\* report still accumulated
C25_Witness ==
    /\ ctx.s_pc = "scan"
    /\ events = <<3>>
    /\ hist.last_hdr = 2
    /\ hist.dropped = 2 + SHS_LD2410_MIN_FRAME_BYTES
    /\ acc = SHS_LD2410_TAIL_RX
    /\ acc_len = 4

\* this step hands a state byte to the state processing
EmitsEvent == events' # events

\* the offset, in the accumulated bytes, of the header this step decoded
EmittedAt == hist'.last_hdr - hist.dropped

(* C26: a step that emits an event takes it from byte 8 of a header that
   stands in the bytes not yet consumed, removes everything up to and
   including that byte, and its header lies behind the header of the
   event before; a step that emits nothing (a read, with or without moving
   the bytes to the front of the buffer, or the end of the loop) removes
   nothing and keeps the unconsumed bytes in place and in order, so no
   consumed byte is scanned again and no byte yields two events. *)
C26_NoRedecoding ==
    [][ /\ EmitsEvent =>
              /\ EmittedAt \in 0 .. Len(acc) - SHS_LD2410_MIN_FRAME_BYTES
              /\ HeaderAt(EmittedAt)
              /\ events' = Append(events, acc[EmittedAt + 8 + 1])
              /\ hist'.dropped >= hist'.last_hdr + SHS_LD2410_MIN_FRAME_BYTES
              /\ acc' = SubSeq(acc, hist'.dropped - hist.dropped + 1, Len(acc))
              /\ hist.last_hdr # NoValue =>
                     hist'.last_hdr >= hist.last_hdr + SHS_LD2410_MIN_FRAME_BYTES
        /\ ~EmitsEvent =>
              /\ hist'.dropped = hist.dropped
              /\ hist'.last_hdr = hist.last_hdr
              /\ Len(acc') >= Len(acc)
              /\ SubSeq(acc', 1, Len(acc)) = acc ]_vars

\* two events, the second one after the bytes left by the first had been
\* moved to the front of the buffer, nothing lost
C26_Witness ==
    /\ Len(events) = 2
    /\ hist.lost = 0
    /\ hist.kept > 0
    /\ start < hist.dropped
    /\ hist.last_hdr >= SHS_LD2410_MIN_FRAME_BYTES
    /\ hist.dropped >= hist.last_hdr + SHS_LD2410_MIN_FRAME_BYTES

\* moving is held under a nonzero cooldown and no timer runs
HeldWithoutTimer ==
    /\ shs_movement_cooldown_sec > 0
    /\ shs_moving_state
    /\ ~shs_mv_cooldown_active

\* the serial task has set moving and not yet started the timer
\* (shs01.c:426-428), or the handler has stored a cooldown that was 0 and
\* not yet reached its timer branch (shs01.c:321-324)
AboutToArm ==
    \/ ctx.s_pc = "arm"
    \/ ctx.h_pc = "timer" /\ ctx.h_was_zero

(* C27: under every interleaving of the cooldown-write handler with the
   serial task, moving held under a nonzero cooldown without an active
   timer occurs only while the task that produced this is about to set
   the timer flag: the serial task between setting moving and arming, or
   the handler between storing a cooldown that was 0 and its timer
   branch; in all other states, and whenever both tasks are at rest, a
   nonzero cooldown with moving held implies an active timer. *)
C27_TimerCoversMoving == HeldWithoutTimer => AboutToArm

\* both tasks at rest, moving held under a cooldown the handler made
\* nonzero, the timer started by the handler
C27_Witness ==
    /\ Quiescent
    /\ hist.writes > 0
    /\ shs_movement_cooldown_sec > 0
    /\ shs_moving_state
    /\ shs_mv_cooldown_active
    /\ hist.cooldown_writer = "zigbee_task"

\* C27 as stated: in every reachable state, a nonzero cooldown with moving
\* held implies an active timer
C27_EveryState == ~HeldWithoutTimer

\* the offsets from start that one pass of the loop body reads when
\* acc_len is n: the header search up to where it stops, the length field,
\* the trailer, the state byte (shs01.c:476-498, 508)
ReadOffsets(w, n) ==
    LET h      == FindHeader(w, 0)
        search == {g + k : g \in 0 .. Min(h, n - 4), k \in 0 .. 3}
        frame  == h + SHS_LD2410_MIN_FRAME_BYTES <= n
        len    == IF frame /\ n - h >= 10 THEN {h + 4, h + 5} ELSE {}
        total  == FrameTotal(LeLen(w, h))
        tail   == IF frame /\ n - h >= 10 /\ h + total <= n
                  THEN {h + total - k : k \in 1 .. 4} ELSE {}
        state  == IF frame THEN {h + 8} ELSE {}
    IN  IF n < SHS_LD2410_MIN_FRAME_BYTES THEN {}
        ELSE search \cup len \cup tail \cup state

(* C28: in every state of the decoder the accumulated bytes end inside the
   buffer (start + acc_len <= 1024); when the scan loop is about to run its
   body, every offset it reads in the header search, the length field, the
   trailer check and the state byte lies below acc_len, so every index is
   below start + acc_len; and the number of bytes it is about to drop is
   at most acc_len, so acc_len never goes below 0. *)
C28_AccumulatorBounds ==
    /\ start >= 0
    /\ acc_len >= 0
    /\ acc_len = Len(acc)
    /\ start + acc_len <= SHS_UART_ACC_BUF_SIZE
    /\ ctx.s_pc = "scan" =>
          \A o \in ReadOffsets(acc, acc_len) :
              /\ 0 <= o
              /\ o < acc_len
              /\ start + o < SHS_UART_ACC_BUF_SIZE
    /\ (ctx.s_pc = "scan" /\ ScanContinues(acc)) =>
          DropLen(acc, FindHeader(acc, 0)) <= acc_len

\* the buffer is full to its last byte, part of a read was left out, and
\* the loop is about to scan it
C28_Witness ==
    /\ ctx.s_pc = "scan"
    /\ start + acc_len = SHS_UART_ACC_BUF_SIZE
    /\ acc_len >= SHS_LD2410_MIN_FRAME_BYTES
    /\ hist.lost > 0

\* the scan loop is running
Scanning == ctx.s_pc = "scan"

(* C29: whatever the buffer holds after a read, each pass of the scan loop
   either leaves the loop or removes at least 9 bytes from the accumulated
   bytes, also for a frame that declares more bytes than the buffer can
   hold, and the loop started after a read comes to its end. *)
C29_ScanLoopTerminates ==
    /\ [][ Scanning =>
              \/ ctx'.s_pc = "read" /\ acc_len' = acc_len
              \/ /\ ctx'.s_pc = "scan"
                 /\ acc_len' >= 0
                 /\ acc_len' <= acc_len - SHS_LD2410_MIN_FRAME_BYTES ]_vars
    /\ Scanning ~> ~Scanning

\* the loop has ended after skipping a frame that declares 65535 bytes of
\* data, the frame's last four bytes still accumulated
C29_Witness ==
    /\ ~Scanning
    /\ events = <<3>>
    /\ hist.dropped = SHS_LD2410_MIN_FRAME_BYTES
    /\ acc = SHS_LD2410_TAIL_RX

\* the little-endian value of the n bytes of f after its first i bytes
RECURSIVE LeAt(_, _, _)
LeAt(f, i, n) == IF n = 0 THEN 0 ELSE f[i + 1] + 256 * LeAt(f, i + 1, n - 1)

\* the last frame written to the sensor that carries command word cmd
LastSent(cmd) ==
    LET hits == {i \in 1 .. Len(hist.tx_log) : CmdWord(hist.tx_log[i]) = cmd}
    IN  IF hits = {} THEN <<>>
        ELSE hist.tx_log[CHOOSE i \in hits : \A j \in hits : j <= i]

\* the three (parameter word, 32-bit value) pairs of a set-parameters frame
ParamsOf(f) ==
    [k \in 0 .. 2 |-> <<LeAt(f, 8 + 6 * k, 2), LeAt(f, 10 + 6 * k, 4)>>]

(* C30: after startup and after every completed configuration write
   handler, the last set-parameters frame sent carries the in-memory
   moving max gate, static max gate and occupancy-clear seconds as the
   values of its three parameters, and the last set-sensitivity frame sent
   carries, for all gates, the in-memory moving and static sensitivities
   0..100. *)
C30_SensorMirrorsConfig ==
    LET p == LastSent(SHS_LD2410_CMD_SET_PARAMS)
        q == LastSent(SHS_LD2410_CMD_SET_SENSITIVITY)
    IN  /\ p # <<>>
        /\ Len(p) = 4 + 2 + 20 + 4
        /\ ParamsOf(p) =
              [k \in 0 .. 2 |->
                  CASE k = 0 -> <<SHS_LD2410_PW_MAX_MOVE_GATE, shs_moving_max_gate>>
                    [] k = 1 -> <<SHS_LD2410_PW_MAX_STATIC_GATE, shs_static_max_gate>>
                    [] k = 2 -> <<SHS_LD2410_PW_NO_ONE_DURATION, shs_occupancy_clear_sec>>]
        /\ q # <<>>
        /\ Len(q) = 4 + 2 + 8 + 4
        /\ LeAt(q, 8, 2) = SHS_LD2410_GATE_ALL
        /\ LeAt(q, 10, 2) = shs_moving_sens_0_100
        /\ LeAt(q, 12, 2) = shs_static_sens_0_100

\* the handler has stored an occupancy-clear time of 11 s, which no boot
\* loads, and sent it after the two sequences of the start
C30_Witness ==
    /\ hist.last_write # <<>>
    /\ hist.last_write[3] = SHS_ATTR_OCC_CLEAR_COOLDOWN
    /\ shs_occupancy_clear_sec = 11
    /\ Len(hist.tx_log) = 9
    /\ LeAt(hist.tx_log[8], 22, 4) = 11

=============================================================================
